---- MODULE Spec2Model ----
(***************************************************************************)
(* Model of the sorting engine (algorithms.py) and of the step recorder   *)
(* of the visualization window (gui.py, SortingVisualization).            *)
(*                                                                         *)
(* Lists are Python lists: a heap maps list identities to contents, so    *)
(* that copying and aliasing are visible.  A list element is a pair       *)
(* <<value, identity>>: Python compares and does arithmetic on the value  *)
(* only, the identity tells equal values apart (it is the position the    *)
(* element had in the input).  Python indices start at 0, sequences here  *)
(* at 1: At, Put, Swap and Slice do the shift.                             *)
(***************************************************************************)
EXTENDS Integers, Sequences, FiniteSets, TLC

VARIABLES
    algorithm_name,   \* the algorithm selected (key of ALGORITHM_MAP / window's algorithm_name)
    heap,             \* Python lists: identity -> contents
    data,             \* identity of the list the caller passes to the sort function
    sorted_data,      \* identity of the list the sort function returned, None before the call
    radix_locals,     \* radix_sort's locals max_val and exp at its return
    array,            \* SortingVisualization.array (contents)
    steps,            \* SortingVisualization.steps
    window,           \* "new" in __init__ before _generate_steps, then "ready" or the exception raised
    writes,           \* number of writes the caller made to a list after the sort returned
    sort_function,    \* measure_sort: the callable passed as sort_function
    data_type,        \* measure_sort: the data_type label passed
    tracing,          \* tracemalloc.is_tracing()
    measured,         \* measure_sort: the readings start_time, end_time, peak of the last call
    result,           \* measure_sort: the PerformanceResult it returned last
    calls,            \* measure_sort: calls made so far on (sort_function, data), counted up to MaxCalls
    is_running,       \* UltimateSortingAnalyzer.is_running
    run_btn,          \* state of the run button: "normal" or "disabled"
    status,           \* text of the status indicator
    algo_vars,        \* the algorithms whose check box variable is true
    data_size,        \* the IntVar data_size
    dataset_type,     \* the StringVar dataset_type
    progress,         \* the last progress report: text and value
    pending,          \* callbacks scheduled with after(0, ...) and not run yet, oldest first
    charts,           \* what _display_multi_results made of the charts
    guide,            \* text of the guide box
    self_multi_results, \* the attribute multi_results, NoLocals before it is set
    self_test_sizes,  \* the attribute test_sizes, NoLocals before it is set
    pc,               \* where the worker thread is in _run_analysis, "none" when there is none
    max_size, dtype, selected, test_sizes, multi_results, total_tests, current_test,
                      \* locals of _run_analysis
    size_idx,         \* position of `for size in test_sizes`
    algo_idx,         \* position of `for algo in selected`
    exception,        \* the exception _run_analysis caught
    configuring,      \* no worker has read the panel yet
    order,            \* the (algorithm, size) measured in this sweep, in order
    generated,        \* the sizes a dataset was generated for in this sweep, in order
    dataset,          \* contents of data when it was generated
    arr_seen,         \* contents of arr when the last algorithm was called
    threads,          \* worker threads started and not ended
    refused,          \* _start_analysis has returned at `if self.is_running` since the last thread start
    original_array,   \* SortingVisualization.original_array (contents)
    current_step,     \* SortingVisualization.current_step
    viz_is_running,   \* SortingVisualization.is_running
    step_btn,         \* state and text of the STEP button
    play_btn,         \* state and text of the AUTO button
    timers,           \* calls of _auto_play scheduled with after(...) and not made yet
    last_op,          \* the handler of the window that ran last, and the text it read
    algorithms,       \* run_analysis: the dictionary passed, as the list of its items
    analysis_results, \* run_analysis: the list results
    reported,         \* run_analysis: the calls of progress_callback, in order
    analysis_pc,      \* run_analysis: "loop" at the head of the loop, "measure" after the callback, "returned"
    progress_callback, \* run_analysis: "None" or the callable passed, which records its arguments
    shell_gap,        \* shell_sort: the local gap
    gaps_used,        \* shell_sort: the gaps of the passes made so far, in order
    shell_pc          \* shell_sort: "none" before the call, "loop" in the gap loop, "returned"

engine_vars == <<algorithm_name, heap, data, sorted_data, radix_locals, array, steps, window, writes>>
measure_vars == <<sort_function, data_type, tracing, measured, result, calls>>
panel_vars == <<algo_vars, data_size, dataset_type>>
widget_vars == <<is_running, run_btn, status, charts, guide>>
worker_vars == <<pc, max_size, dtype, selected, test_sizes, multi_results, total_tests,
                 current_test, size_idx, algo_idx, exception>>
history_vars == <<configuring, order, generated, dataset, arr_seen, threads, refused>>
sweep_vars == <<panel_vars, widget_vars, worker_vars, history_vars,
                progress, pending, self_multi_results, self_test_sizes>>
replay_vars == <<original_array, current_step, viz_is_running, step_btn, play_btn, timers, last_op>>
analysis_vars == <<algorithms, analysis_results, reported, analysis_pc, progress_callback>>
shell_vars == <<shell_gap, gaps_used, shell_pc>>
rest_vars == <<replay_vars, analysis_vars, shell_vars>>
vars == <<engine_vars, measure_vars, sweep_vars, rest_vars>>

None == 0          \* no list: list identities start at 1
NoLocals == <<>>   \* no local variable bound

(***************************************************************************)
(* Bounds of the model                                                     *)
(***************************************************************************)
MaxLen == 3        \* short inputs: every list of at most MaxLen values of Values
MaxUnit == 1       \* short inputs hold -1 and the values 10*t + u, t in 0..1, u in 0..MaxUnit
MaxLongLen == 6    \* long inputs: every list of at most MaxLongLen values of SmallValues
MaxWrites == 1     \* writes of the caller to the lists after the call
MaxSample == 2     \* elements of a list passed to measure_sort or held for a dataset of a sweep
MaxCalls == 2      \* the calls of measure_sort are counted up to MaxCalls
MaxSliderSteps == 0  \* slider positions the user drags to: from_ + k * 1000, k in 0..MaxSliderSteps
MaxTimers == 2     \* the calls of _auto_play scheduled are counted up to MaxTimers
MaxAlgorithms == 2 \* entries of a dictionary passed to run_analysis
MaxShellLen == 16  \* elements of a list sorted pass by pass

Values == {0 - 1} \cup {10 * t + u : t \in 0..1, u \in 0..MaxUnit}
SmallValues == {0, 1}

SeqsUpTo(S, n) == UNION {[1..m -> S] : m \in 0..n}

\* the element at position p of the input is the value with identity p
\* (<<>> \o f makes the explicit tuple of the function f on 1..n)
Tagged(vals) == <<>> \o [p \in 1..Len(vals) |-> <<vals[p], p>>]

Inputs == {Tagged(v) : v \in SeqsUpTo(Values, MaxLen) \cup SeqsUpTo(SmallValues, MaxLongLen)}

(***************************************************************************)
(* Python lists                                                            *)
(***************************************************************************)
Key(x) == x[1]
Vals(a) == <<>> \o [p \in 1..Len(a) |-> Key(a[p])]

At(a, i) == a[i + 1]
Put(a, i, v) == [a EXCEPT ![i + 1] = v]
Swap(a, i, j) == [a EXCEPT ![i + 1] = a[j + 1], ![j + 1] = a[i + 1]]
Slice(a, lo, hi) == SubSeq(a, lo + 1, hi)

\* list.copy(): a new list with the same contents
list_copy_alias(h, r) == [heap |-> h, ref |-> r]
list_copy(h, r) ==
    LET n == Cardinality(DOMAIN h) + 1
    IN  [heap |-> (n :> h[r]) @@ h, ref |-> n]

(***************************************************************************)
(* SortAlgorithms.quick_sort                                               *)
(***************************************************************************)
median_of_three(a, low, high) ==
    LET mid == (low + high) \div 2
        candidates == <<low, mid, high>>
        \* position of candidate p after the stable candidates.sort(key = value)
        rank(p) == Cardinality({q \in 1..3 :
                       \/ Key(At(a, candidates[q])) < Key(At(a, candidates[p]))
                       \/ /\ Key(At(a, candidates[q])) = Key(At(a, candidates[p]))
                          /\ q < p})
    IN  candidates[CHOOSE p \in 1..3 : rank(p) = 1]

RECURSIVE partition_loop(_, _, _, _, _)
partition_loop(a, i, j, high, pivot) ==
    IF j >= high THEN [a |-> a, i |-> i]
    ELSE IF Key(At(a, j)) <= Key(pivot)
         THEN partition_loop(Swap(a, i + 1, j), i + 1, j + 1, high, pivot)
         ELSE partition_loop(a, i, j + 1, high, pivot)

partition_strict(a, low, high) ==
    LET pivot_idx == median_of_three(a, low, high)
        a1 == Swap(a, pivot_idx, high)
        r == partition_loop(a1, low - 1, low, high, At(a1, high))
    IN  [a |-> r.a, pi |-> r.i + 1]
partition(a, low, high) ==
    LET pivot_idx == median_of_three(a, low, high)
        a1 == Swap(a, pivot_idx, high)
        r == partition_loop(a1, low - 1, low, high, At(a1, high))
    IN  [a |-> Swap(r.a, r.i + 1, high), pi |-> r.i + 1]

RECURSIVE quick_sort_helper(_, _, _)
quick_sort_helper(a, low, high) ==
    IF low < high
    THEN LET p == partition(a, low, high)
         IN  quick_sort_helper(quick_sort_helper(p.a, low, p.pi - 1), p.pi + 1, high)
    ELSE a

quick_sort(h, arr) ==
    LET c == list_copy(h, arr)
        a == c.heap[c.ref]
    IN  [heap |-> [c.heap EXCEPT ![c.ref] =
                      IF Len(a) > 1 THEN quick_sort_helper(a, 0, Len(a) - 1) ELSE a],
         ref |-> c.ref]

(***************************************************************************)
(* SortAlgorithms.heap_sort                                                *)
(***************************************************************************)
RECURSIVE heapify(_, _, _)
heapify(a, size, root) ==
    LET left == 2 * root + 1
        right == 2 * root + 2
        l1 == IF left < size /\ Key(At(a, left)) > Key(At(a, root)) THEN left ELSE root
        largest == IF right < size /\ Key(At(a, right)) > Key(At(a, l1)) THEN right ELSE l1
    IN  IF largest # root
        THEN heapify(Swap(a, root, largest), size, largest)
        ELSE a

\* for i in range(n // 2 - 1, -1, -1): heapify(arr, n, i)
RECURSIVE heap_build(_, _, _)
heap_build(a, n, i) ==
    IF i < 0 THEN a ELSE heap_build(heapify(a, n, i), n, i - 1)

\* for i in range(n - 1, 0, -1): swap root and i, heapify(arr, i, 0)
RECURSIVE heap_extract_short(_, _)
heap_extract_short(a, i) ==
    IF i <= 1 THEN a ELSE heap_extract_short(heapify(Swap(a, 0, i), i, 0), i - 1)

RECURSIVE heap_extract(_, _)
heap_extract(a, i) ==
    IF i <= 0 THEN a ELSE heap_extract(heapify(Swap(a, 0, i), i, 0), i - 1)

heap_sort(h, arr) ==
    LET c == list_copy(h, arr)
        a == c.heap[c.ref]
        n == Len(a)
    IN  [heap |-> [c.heap EXCEPT ![c.ref] =
                      heap_extract(heap_build(a, n, (n \div 2) - 1), n - 1)],
         ref |-> c.ref]

(***************************************************************************)
(* SortAlgorithms.shell_sort                                               *)
(***************************************************************************)
\* gap = 1; while gap < n // 3: gap = gap * 3 + 1
RECURSIVE knuth_gap(_, _)
knuth_gap(gap, n) ==
    IF gap < n \div 3 THEN knuth_gap(gap * 3 + 1, n) ELSE gap

\* while j >= gap and arr[j - gap] > temp: arr[j] = arr[j - gap]; j -= gap
RECURSIVE shell_shift(_, _, _, _)
shell_shift(a, j, gap, temp) ==
    IF j >= gap /\ Key(At(a, j - gap)) > Key(temp)
    THEN shell_shift(Put(a, j, At(a, j - gap)), j - gap, gap, temp)
    ELSE [a |-> a, j |-> j]

\* for i in range(gap, n): insert arr[i] into its gap-chain
RECURSIVE shell_pass_no_store(_, _, _, _)
shell_pass_no_store(a, gap, i, n) ==
    IF i >= n THEN a
    ELSE LET temp == At(a, i)
             s == shell_shift(a, i, gap, temp)
         IN  shell_pass_no_store(s.a, gap, i + 1, n)

RECURSIVE shell_pass(_, _, _, _)
shell_pass(a, gap, i, n) ==
    IF i >= n THEN a
    ELSE LET temp == At(a, i)
             s == shell_shift(a, i, gap, temp)
         IN  shell_pass(Put(s.a, s.j, temp), gap, i + 1, n)

\* while gap > 0: pass; gap //= 3
RECURSIVE shell_gaps(_, _, _)
shell_gaps(a, gap, n) ==
    IF gap > 0 THEN shell_gaps(shell_pass(a, gap, gap, n), gap \div 3, n) ELSE a

shell_sort(h, arr) ==
    LET c == list_copy(h, arr)
        a == c.heap[c.ref]
        n == Len(a)
    IN  [heap |-> [c.heap EXCEPT ![c.ref] = shell_gaps(a, knuth_gap(1, n), n)],
         ref |-> c.ref]

(***************************************************************************)
(* SortAlgorithms.merge_sort                                               *)
(***************************************************************************)
\* the three while loops of merge: once a half is exhausted the first loop
\* is never entered again, so one recursion covers the three in order
RECURSIVE merge_loop_right(_, _, _, _, _, _)
merge_loop_right(a, left_half, right_half, i, j, k) ==
    IF i < Len(left_half) /\ j < Len(right_half)
    THEN IF Key(At(left_half, i)) < Key(At(right_half, j))
         THEN merge_loop_right(Put(a, k, At(left_half, i)), left_half, right_half, i + 1, j, k + 1)
         ELSE merge_loop_right(Put(a, k, At(right_half, j)), left_half, right_half, i, j + 1, k + 1)
    ELSE IF i < Len(left_half)
    THEN merge_loop_right(Put(a, k, At(left_half, i)), left_half, right_half, i + 1, j, k + 1)
    ELSE IF j < Len(right_half)
    THEN merge_loop_right(Put(a, k, At(right_half, j)), left_half, right_half, i, j + 1, k + 1)
    ELSE a

RECURSIVE merge_loop(_, _, _, _, _, _)
merge_loop(a, left_half, right_half, i, j, k) ==
    IF i < Len(left_half) /\ j < Len(right_half)
    THEN IF Key(At(left_half, i)) <= Key(At(right_half, j))
         THEN merge_loop(Put(a, k, At(left_half, i)), left_half, right_half, i + 1, j, k + 1)
         ELSE merge_loop(Put(a, k, At(right_half, j)), left_half, right_half, i, j + 1, k + 1)
    ELSE IF i < Len(left_half)
    THEN merge_loop(Put(a, k, At(left_half, i)), left_half, right_half, i + 1, j, k + 1)
    ELSE IF j < Len(right_half)
    THEN merge_loop(Put(a, k, At(right_half, j)), left_half, right_half, i, j + 1, k + 1)
    ELSE a

merge(a, left, mid, right) ==
    merge_loop(a, Slice(a, left, mid + 1), Slice(a, mid + 1, right + 1), 0, 0, left)

RECURSIVE merge_sort_helper(_, _, _)
merge_sort_helper(a, left, right) ==
    IF left < right
    THEN LET mid == (left + right) \div 2
         IN  merge(merge_sort_helper(merge_sort_helper(a, left, mid), mid + 1, right),
                   left, mid, right)
    ELSE a

merge_sort(h, arr) ==
    LET c == list_copy(h, arr)
        a == c.heap[c.ref]
    IN  [heap |-> [c.heap EXCEPT ![c.ref] =
                      IF Len(a) > 1 THEN merge_sort_helper(a, 0, Len(a) - 1) ELSE a],
         ref |-> c.ref]

(***************************************************************************)
(* SortAlgorithms.radix_sort                                               *)
(***************************************************************************)
\* (num // exp) % 10: Python's floor division and non-negative remainder
digit_of(num, exp) == (Key(num) \div exp) % 10

\* for num in a: count[(num // exp) % 10] += 1
RECURSIVE count_occurrences(_, _, _, _)
count_occurrences(count, a, i, exp) ==
    IF i >= Len(a) THEN count
    ELSE LET index == digit_of(At(a, i), exp)
         IN  count_occurrences(Put(count, index, At(count, index) + 1), a, i + 1, exp)

\* for i in range(1, 10): count[i] += count[i - 1]
RECURSIVE cumulative_count(_, _)
cumulative_count(count, i) ==
    IF i >= 10 THEN count
    ELSE cumulative_count(Put(count, i, At(count, i) + At(count, i - 1)), i + 1)

\* for i in range(n - 1, -1, -1): output[count[index] - 1] = a[i]; count[index] -= 1
RECURSIVE build_output(_, _, _, _, _)
build_output(output, count, a, i, exp) ==
    IF i < 0 THEN output
    ELSE LET index == digit_of(At(a, i), exp)
         IN  build_output(Put(output, At(count, index) - 1, At(a, i)),
                          Put(count, index, At(count, index) - 1), a, i - 1, exp)

counting_sort_by_digit(a, exp) ==
    LET n == Len(a)
        count == cumulative_count(count_occurrences(<<0, 0, 0, 0, 0, 0, 0, 0, 0, 0>>, a, 0, exp), 1)
        output == build_output(<<>> \o [p \in 1..n |-> 0], count, a, n - 1, exp)
    IN  <<>> \o [p \in 1..n |-> output[p]]

py_max(a) == CHOOSE m \in {Key(a[p]) : p \in 1..Len(a)} : \A p \in 1..Len(a) : Key(a[p]) <= m

\* exp = 1; while max_val // exp > 0: counting_sort_by_digit(arr, exp); exp *= 10
RECURSIVE radix_loop_short(_, _, _)
radix_loop_short(a, max_val, exp) ==
    IF max_val \div (exp * 10) > 0
    THEN radix_loop_short(counting_sort_by_digit(a, exp), max_val, exp * 10)
    ELSE [a |-> a, exp |-> exp]

RECURSIVE radix_loop(_, _, _)
radix_loop(a, max_val, exp) ==
    IF max_val \div exp > 0
    THEN radix_loop(counting_sort_by_digit(a, exp), max_val, exp * 10)
    ELSE [a |-> a, exp |-> exp]

radix_sort(h, arr) ==
    IF Len(h[arr]) = 0
    THEN LET c == list_copy(h, arr)
         IN  [heap |-> c.heap, ref |-> c.ref, locals |-> NoLocals]
    ELSE LET c == list_copy(h, arr)
             max_val == py_max(c.heap[c.ref])
             r == radix_loop(c.heap[c.ref], max_val, 1)
         IN  [heap |-> [c.heap EXCEPT ![c.ref] = r.a], ref |-> c.ref,
              locals |-> [max_val |-> max_val, exp |-> r.exp]]

(***************************************************************************)
(* ALGORITHM_MAP                                                           *)
(***************************************************************************)
ALGORITHM_NAMES == {"Quick Sort", "Heap Sort", "Shell Sort", "Merge Sort", "Radix Sort"}

ALGORITHM_MAP(name, h, arr) ==
    CASE name = "Quick Sort" -> quick_sort(h, arr)
      [] name = "Heap Sort"  -> heap_sort(h, arr)
      [] name = "Shell Sort" -> shell_sort(h, arr)
      [] name = "Merge Sort" -> merge_sort(h, arr)
      [] name = "Radix Sort" -> radix_sort(h, arr)

(***************************************************************************)
(* SortingVisualization: the step recorder                                 *)
(*                                                                         *)
(* A generator works on the list arr, on self.steps and (Quick, Heap) on  *)
(* the shared set sorted_set; the three are threaded through as a record. *)
(* A step is (array snapshot, highlights, pointers, description); the     *)
(* description keeps the constant part of the text.  Steps appended as    *)
(* 3-tuples have no pointers.                                              *)
(***************************************************************************)
NoPointers == <<>>
EmptyDict == <<>>
NoException == "none"

\* d[k] = v on a dict: a later entry replaces an earlier one with the same key
dict_set(d, k, v) == (k :> v) @@ d
\* hl.update({k: 'sorted' for k in sorted_set})
update_sorted(hl, sorted_set) == [k \in sorted_set |-> "sorted"] @@ hl

\* self.steps.append((arr.copy(), hl, pointers, description))
append_step(st, hl, pointers, description) ==
    [st EXCEPT !.steps = Append(st.steps, [array |-> st.arr, highlights |-> hl,
                                    pointers |-> pointers, description |-> description])]

\* the body of `for j in range(lo, hi)` of _gen_quicksort, from j on
RECURSIVE _gen_quicksort_loop(_, _, _, _, _)
_gen_quicksort_loop(st, i, j, hi, pivot_val) ==
    IF j >= hi THEN [st |-> st, i |-> i]
    ELSE LET hl0 == dict_set((hi :> "pivot"), j, "comparing")
             hl1 == IF i >= 0 THEN dict_set(hl0, i, "normal") ELSE hl0
             st1 == append_step(st, update_sorted(hl1, st.sorted_set),
                                ("i" :> i) @@ ("j" :> j), "Compare")
         IN  IF Key(At(st1.arr, j)) <= Key(pivot_val)
             THEN LET i1 == i + 1
                  IN  IF i1 # j
                      THEN LET st2 == [st1 EXCEPT !.arr = Swap(st1.arr, i1, j)]
                               hl2 == dict_set(dict_set((hi :> "pivot"), i1, "swapping"),
                                               j, "swapping")
                               st3 == append_step(st2, update_sorted(hl2, st2.sorted_set),
                                                  ("i" :> i1) @@ ("j" :> j), "Swap")
                           IN  _gen_quicksort_loop(st3, i1, j + 1, hi, pivot_val)
                      ELSE _gen_quicksort_loop(st1, i1, j + 1, hi, pivot_val)
             ELSE _gen_quicksort_loop(st1, i, j + 1, hi, pivot_val)

RECURSIVE _gen_quicksort(_, _, _)
_gen_quicksort(st, lo, hi) ==
    IF lo < hi
    THEN LET pivot_idx == hi
             pivot_val == At(st.arr, pivot_idx)
             st1 == append_step(st, update_sorted((pivot_idx :> "pivot"), st.sorted_set),
                                ("i" :> (lo - 1)) @@ ("j" :> lo), "PIVOT")
             r == _gen_quicksort_loop(st1, lo - 1, lo, hi, pivot_val)
             i == r.i
             st2 == [r.st EXCEPT !.arr = Swap(r.st.arr, i + 1, hi),
                                 !.sorted_set = r.st.sorted_set \cup {i + 1}]
             st3 == append_step(st2, update_sorted(((i + 1) :> "sorted"), st2.sorted_set),
                                ("i" :> (i + 1)), "Pivot placed")
         IN  _gen_quicksort(_gen_quicksort(st3, lo, i), i + 2, hi)
    ELSE st

RECURSIVE _heapify(_, _, _)
_heapify(st, n, i) ==
    LET l == 2 * i + 1
        r == 2 * i + 2
        hl0 == (i :> "pivot")
        hl1 == IF l < n THEN dict_set(hl0, l, "comparing") ELSE hl0
        hl2 == IF r < n THEN dict_set(hl1, r, "comparing") ELSE hl1
        st1 == append_step(st, update_sorted(hl2, st.sorted_set), NoPointers, "Heapify")
        arr == st1.arr
        l1 == IF l < n /\ Key(At(arr, l)) > Key(At(arr, i)) THEN l ELSE i
        largest == IF r < n /\ Key(At(arr, r)) > Key(At(arr, l1)) THEN r ELSE l1
    IN  IF largest # i
        THEN LET st2 == [st1 EXCEPT !.arr = Swap(st1.arr, i, largest)]
                 hl3 == dict_set((i :> "swapping"), largest, "swapping")
                 st3 == append_step(st2, update_sorted(hl3, st2.sorted_set), NoPointers, "Swap")
             IN  _heapify(st3, n, largest)
        ELSE st1

\* for i in range(n//2 - 1, -1, -1): self._heapify(arr, n, i, sorted_set)
RECURSIVE _gen_heapsort_build(_, _, _)
_gen_heapsort_build(st, n, i) ==
    IF i < 0 THEN st ELSE _gen_heapsort_build(_heapify(st, n, i), n, i - 1)

\* for i in range(n-1, 0, -1): extract the maximum to position i
RECURSIVE _gen_heapsort_extract_root(_, _)
_gen_heapsort_extract_root(st, i) ==
    IF i <= 0 THEN st
    ELSE LET hl0 == dict_set((0 :> "pivot"), i, "comparing")
             st1 == append_step(st, update_sorted(hl0, st.sorted_set), NoPointers, "Extract MAX")
             st2 == [st1 EXCEPT !.arr = Swap(st1.arr, 0, i), !.sorted_set = st1.sorted_set \cup {i}]
             hl1 == dict_set((0 :> "sorted"), i, "sorted")
             st3 == append_step(st2, update_sorted(hl1, st2.sorted_set), NoPointers, "Swapped")
         IN  _gen_heapsort_extract_root(_heapify(st3, i, 0), i - 1)

RECURSIVE _gen_heapsort_extract(_, _)
_gen_heapsort_extract(st, i) ==
    IF i <= 0 THEN st
    ELSE LET hl0 == dict_set((0 :> "pivot"), i, "comparing")
             st1 == append_step(st, update_sorted(hl0, st.sorted_set), NoPointers, "Extract MAX")
             st2 == [st1 EXCEPT !.arr = Swap(st1.arr, 0, i), !.sorted_set = st1.sorted_set \cup {i}]
             hl1 == dict_set((0 :> "swapping"), i, "sorted")
             st3 == append_step(st2, update_sorted(hl1, st2.sorted_set), NoPointers, "Swapped")
         IN  _gen_heapsort_extract(_heapify(st3, i, 0), i - 1)

\* the text of the second step reads arr[0]: IndexError on the empty list,
\* raised before that step is appended
_gen_heapsort(st) ==
    LET n == Len(st.arr)
        st1 == append_step(st, (0 :> "pivot"), NoPointers, "Building MAX HEAP")
        st2 == _gen_heapsort_build(st1, n, (n \div 2) - 1)
        st3 == append_step(st2, (0 :> "pivot"), NoPointers, "MAX HEAP ready")
    IN  IF Len(st2.arr) = 0
        THEN [st2 EXCEPT !.exc = "IndexError"]
        ELSE _gen_heapsort_extract(st3, n - 1)

\* while j >= gap and arr[j-gap] > temp: record the step, arr[j] = arr[j-gap], j -= gap
RECURSIVE _gen_shellsort_shift(_, _, _, _)
_gen_shellsort_shift(st, j, gap, temp) ==
    IF j >= gap /\ Key(At(st.arr, j - gap)) > Key(temp)
    THEN LET hl == dict_set((j :> "swapping"), j - gap, "swapping")
             st1 == append_step(st, hl, NoPointers, "Shift")
             st2 == [st1 EXCEPT !.arr = Put(st1.arr, j, At(st1.arr, j - gap))]
         IN  _gen_shellsort_shift(st2, j - gap, gap, temp)
    ELSE [st |-> st, j |-> j]

\* for i in range(gap, n)
RECURSIVE _gen_shellsort_pass(_, _, _, _)
_gen_shellsort_pass(st, gap, i, n) ==
    IF i >= Len(st.arr) THEN st                     \* n = len(arr)
    ELSE LET temp == At(st.arr, i)
             j == i
             st1 == IF j >= gap
                    THEN append_step(st, dict_set((i :> "gap"), j - gap, "comparing"),
                                     NoPointers, "Compare")
                    ELSE st
             s == _gen_shellsort_shift(st1, j, gap, temp)
         IN  _gen_shellsort_pass([s.st EXCEPT !.arr = Put(s.st.arr, s.j, temp)], gap, i + 1, n)

\* while gap > 0
RECURSIVE _gen_shellsort_gaps(_, _, _)
_gen_shellsort_gaps(st, gap, n) ==
    IF gap > 0
    THEN LET st1 == append_step(st, EmptyDict, NoPointers, "GAP")
         IN  _gen_shellsort_gaps(_gen_shellsort_pass(st1, gap, gap, n), gap \div 3, n)
    ELSE st

_gen_shellsort(st) ==
    LET n == Len(st.arr)
    IN  _gen_shellsort_gaps(st, knuth_gap(1, n), n)

\* the three while loops of the merge in _gen_mergesort; only the first records steps
RECURSIVE _gen_mergesort_merge(_, _, _, _, _, _)
_gen_mergesort_merge(st, left, right, i, j, k) ==
    IF i < Len(left) /\ j < Len(right)
    THEN LET take_left == Key(At(left, i)) <= Key(At(right, j))
             st1 == [st EXCEPT !.arr = Put(st.arr, k, IF take_left THEN At(left, i) ELSE At(right, j))]
             st2 == append_step(st1, (k :> "merging"), NoPointers, "Place")
         IN  IF take_left
             THEN _gen_mergesort_merge(st2, left, right, i + 1, j, k + 1)
             ELSE _gen_mergesort_merge(st2, left, right, i, j + 1, k + 1)
    ELSE IF i < Len(left)
    THEN _gen_mergesort_merge([st EXCEPT !.arr = Put(st.arr, k, At(left, i))],
                              left, right, i + 1, j, k + 1)
    ELSE IF j < Len(right)
    THEN _gen_mergesort_merge([st EXCEPT !.arr = Put(st.arr, k, At(right, j))],
                              left, right, i, j + 1, k + 1)
    ELSE st

RECURSIVE _gen_mergesort(_, _, _)
_gen_mergesort(st, start, end) ==
    IF end - start > 1
    THEN LET mid == (start + end) \div 2
             hl == [i \in start..(end - 1) |-> IF i < mid THEN "comparing" ELSE "gap"]
             st1 == append_step(st, hl, NoPointers, "Split")
             st2 == _gen_mergesort(_gen_mergesort(st1, start, mid), mid, end)
             left == Slice(st2.arr, start, mid)
             right == Slice(st2.arr, mid, end)
             st3 == append_step(st2, EmptyDict, NoPointers, "Merge")
         IN  _gen_mergesort_merge(st3, left, right, 0, 0, start)
    ELSE st

\* sorted(arr, key=lambda x: (x // exp) % 10): stable, so the element at
\* position q goes after the ones with a smaller digit and the ones with
\* the same digit before it
sorted_by_digit(a, exp) ==
    LET rank(q) == Cardinality({r \in 1..Len(a) :
                       \/ digit_of(a[r], exp) < digit_of(a[q], exp)
                       \/ digit_of(a[r], exp) = digit_of(a[q], exp) /\ r < q})
    IN  <<>> \o [p \in 1..Len(a) |-> a[CHOOSE q \in 1..Len(a) : rank(q) = p - 1]]

\* for i in range(len(arr)): if arr[i] != output[i]: arr[i] = output[i], record the step
RECURSIVE _gen_radixsort_place(_, _, _)
_gen_radixsort_place(st, output, i) ==
    IF i >= Len(st.arr) THEN st
    ELSE IF Key(At(st.arr, i)) # Key(At(output, i))
    THEN LET st1 == [st EXCEPT !.arr = Put(st.arr, i, At(output, i))]
         IN  _gen_radixsort_place(append_step(st1, (i :> "swapping"), NoPointers, "Place"),
                                  output, i + 1)
    ELSE _gen_radixsort_place(st, output, i + 1)

\* while max_val // exp > 0
RECURSIVE _gen_radixsort_loop(_, _, _)
_gen_radixsort_loop(st, max_val, exp) ==
    IF max_val \div exp > 0
    THEN LET st1 == append_step(st, EmptyDict, NoPointers, "Sorting by DIGIT")
             output == sorted_by_digit(st1.arr, exp)
         IN  _gen_radixsort_loop(_gen_radixsort_place(st1, output, 0), max_val, exp * 10)
    ELSE st

_gen_radixsort(st) ==
    IF Len(st.arr) = 0 \/ py_max(st.arr) = 0
    THEN st
    ELSE _gen_radixsort_loop(st, py_max(st.arr), 1)

\* returns self.steps as the call leaves it, and the exception it raised, if any
_generate_steps(name, self_array) ==
    LET st0 == [arr |-> self_array, steps |-> <<>>, sorted_set |-> {}, exc |-> NoException]
        n == Len(self_array)
        \* the steps generated, closed by the final step unless generation raised
        finished(st) ==
            IF st.exc # NoException
            THEN [steps |-> st.steps, exc |-> st.exc]
            ELSE [steps |-> Append(st.steps, [array |-> st.arr,
                                              highlights |-> [i \in 0..(n - 1) |-> "sorted"],
                                              pointers |-> NoPointers,
                                              description |-> "Sorting Complete!"]),
                  exc |-> NoException]
    IN  finished(CASE name = "Quick Sort" -> _gen_quicksort(st0, 0, n - 1)
                   [] name = "Heap Sort"  -> _gen_heapsort(st0)
                   [] name = "Shell Sort" -> _gen_shellsort(st0)
                   [] name = "Merge Sort" -> _gen_mergesort(st0, 0, n)
                   [] OTHER               -> _gen_radixsort(st0))

(***************************************************************************)
(* SortingVisualization: the replay of a trace (gui.py)                    *)
(*                                                                         *)
(* A window is the record of its attributes array, original_array, steps, *)
(* current_step and is_running, of its two buttons and of the number of   *)
(* calls of _auto_play that after(...) has scheduled; a handler maps the   *)
(* record before it to the record after it.  The handlers are taken to be *)
(* callable at any time, whatever the state of their button.  An array    *)
(* the window draws at random is held as a list of three elements: the    *)
(* highest value, the lowest, and one of the two.                          *)
(***************************************************************************)
MinCustom == 3         \* 3 <= len(numbers)
MaxCustomHeap == 10    \* max_n of Heap Sort
MaxCustomOther == 15   \* max_n of the other algorithms
RandomLow == 5         \* random.randint(5, 50)
RandomHigh == 50

Button(state, text) == [state |-> state, text |-> text]

\* the arrays of __init__ and _randomize
RandomArrays == {Tagged(<<RandomHigh, RandomLow, v>>) : v \in {RandomLow, RandomHigh}}

\* _step_forward that takes the step drawn off the trace
_step_forward_consuming(w) ==
    IF w.current_step >= Len(w.steps) THEN w
    ELSE [w EXCEPT !.steps = Tail(w.steps)]

\* _step_forward that leaves is_running as it is at the end of the trace
_step_forward_running(w) ==
    IF w.current_step >= Len(w.steps) THEN w
    ELSE LET next_step == w.current_step + 1
         IN  IF next_step >= Len(w.steps)
             THEN [w EXCEPT !.current_step = next_step,
                            !.step_btn = Button("disabled", "DONE"),
                            !.play_btn = Button("disabled", w.play_btn.text)]
             ELSE [w EXCEPT !.current_step = next_step]

\* _step_forward: the step at the cursor is drawn and the cursor moves on
_step_forward(w) ==
    IF w.current_step >= Len(w.steps) THEN w
    ELSE LET next_step == w.current_step + 1
         IN  IF next_step >= Len(w.steps)
             THEN [w EXCEPT !.current_step = next_step,
                            !.step_btn = Button("disabled", "DONE"),
                            !.play_btn = Button("disabled", w.play_btn.text),
                            !.is_running = FALSE]
             ELSE [w EXCEPT !.current_step = next_step]

\* _auto_play: one step, and the next call is scheduled
_auto_play(w) ==
    IF ~w.is_running \/ w.current_step >= Len(w.steps)
    THEN [w EXCEPT !.is_running = FALSE,
                   !.play_btn = Button(w.play_btn.state, "AUTO"),
                   !.step_btn = Button(IF w.current_step < Len(w.steps)
                                       THEN "normal" ELSE "disabled", w.step_btn.text)]
    ELSE LET w1 == _step_forward(w)
         IN  IF w1.current_step < Len(w1.steps)
             THEN [w1 EXCEPT !.timers = w1.timers + 1]      \* self.after(..., self._auto_play)
             ELSE w1

\* _toggle_auto
_toggle_auto(w) ==
    IF w.current_step >= Len(w.steps) THEN w
    ELSE IF ~w.is_running
    THEN _auto_play([w EXCEPT !.is_running = TRUE,
                              !.play_btn = Button(w.play_btn.state, "STOP"),
                              !.step_btn = Button("disabled", w.step_btn.text)])
    ELSE [w EXCEPT !.is_running = FALSE,
                   !.play_btn = Button(w.play_btn.state, "AUTO"),
                   !.step_btn = Button("normal", w.step_btn.text)]

\* _restart: the trace is generated again from a copy of original_array;
\* an exception of _generate_steps leaves the buttons as they are
_restart(name, w) ==
    LET r == _generate_steps(name, w.original_array)
    IN  [array |-> w.original_array,
         original_array |-> w.original_array,
         steps |-> r.steps,
         current_step |-> 0,
         is_running |-> FALSE,
         step_btn |-> IF r.exc = NoException THEN Button("normal", "STEP") ELSE w.step_btn,
         play_btn |-> IF r.exc = NoException THEN Button("normal", "AUTO") ELSE w.play_btn,
         timers |-> w.timers]

\* _randomize, on the array drawn
_randomize(name, w, drawn) ==
    _restart(name, [w EXCEPT !.array = drawn, !.original_array = drawn])

\* str.strip(), on a text held as the list of its characters
RECURSIVE py_lstrip(_)
py_lstrip(s) == IF s # <<>> /\ Head(s) = " " THEN py_lstrip(Tail(s)) ELSE s

RECURSIVE py_rstrip(_)
py_rstrip(s) ==
    IF s # <<>> /\ s[Len(s)] = " " THEN py_rstrip(SubSeq(s, 1, Len(s) - 1)) ELSE s

py_strip(s) == py_rstrip(py_lstrip(s))

\* str.split(','): the pieces between the commas, from character i on
RECURSIVE py_split_from(_, _, _)
py_split_from(s, i, piece) ==
    IF i > Len(s) THEN <<piece>>
    ELSE IF s[i] = "," THEN <<piece>> \o py_split_from(s, i + 1, <<>>)
    ELSE py_split_from(s, i + 1, Append(piece, s[i]))

py_split(s) == py_split_from(s, 1, <<>>)

DigitValue ==
    [c \in {"0", "1", "2", "3", "4", "5", "6", "7", "8", "9"} |->
        CASE c = "0" -> 0 [] c = "1" -> 1 [] c = "2" -> 2 [] c = "3" -> 3 [] c = "4" -> 4
          [] c = "5" -> 5 [] c = "6" -> 6 [] c = "7" -> 7 [] c = "8" -> 8 [] c = "9" -> 9]

RECURSIVE decimal(_, _)
decimal(s, acc) == IF s = <<>> THEN acc ELSE decimal(Tail(s), 10 * acc + DigitValue[Head(s)])

\* int(s) of a stripped text: an optional sign and decimal digits, ValueError otherwise
py_int(s) ==
    LET signed == s # <<>> /\ Head(s) \in {"-", "+"}
        digits == IF signed THEN Tail(s) ELSE s
    IN  IF digits = <<>> \/ \E p \in 1..Len(digits) : digits[p] \notin DOMAIN DigitValue
        THEN [exc |-> "ValueError", value |-> 0]
        ELSE [exc |-> NoException,
              value |-> IF signed /\ Head(s) = "-" THEN 0 - decimal(digits, 0)
                        ELSE decimal(digits, 0)]

\* [int(x.strip()) for x in text.split(',') if x.strip()]
parse_numbers(text) ==
    LET pieces == py_split(text)
        items == SelectSeq(pieces, LAMBDA x : py_strip(x) # <<>>)
        parsed == <<>> \o [p \in 1..Len(items) |-> py_int(py_strip(items[p]))]
    IN  IF \E p \in 1..Len(parsed) : parsed[p].exc # NoException
        THEN [exc |-> "ValueError", numbers |-> <<>>]
        ELSE [exc |-> NoException,
              numbers |-> <<>> \o [p \in 1..Len(parsed) |-> parsed[p].value]]

max_n(name) == IF name = "Heap Sort" THEN MaxCustomHeap ELSE MaxCustomOther

\* _apply_custom that takes a list of any length
_apply_custom_any_length(name, w, entry) ==
    LET text == py_strip(entry)
        parsed == parse_numbers(text)
    IN  IF text = <<>> \/ parsed.exc # NoException THEN w
        ELSE _restart(name, [w EXCEPT !.array = Tagged(parsed.numbers),
                                      !.original_array = Tagged(parsed.numbers)])

\* _apply_custom, on the text of the entry
_apply_custom(name, w, entry) ==
    LET text == py_strip(entry)
        parsed == parse_numbers(text)
    IN  IF text = <<>> THEN w
        ELSE IF parsed.exc # NoException THEN w                 \* except ValueError: pass
        ELSE IF MinCustom <= Len(parsed.numbers) /\ Len(parsed.numbers) <= max_n(name)
        THEN _restart(name, [w EXCEPT !.array = Tagged(parsed.numbers),
                                      !.original_array = Tagged(parsed.numbers)])
        ELSE w

\* ','.join(items)
RECURSIVE join(_)
join(items) ==
    IF items = <<>> THEN <<>>
    ELSE IF Len(items) = 1 THEN items[1]
    ELSE items[1] \o <<",">> \o join(Tail(items))

\* items a user types between the commas: nothing, a number, a number with
\* a sign and blanks around it, a word
Items == {<<>>, <<"7">>, <<" ", "-", "1", "2", " ">>, <<"x">>}

Repeat(item, n) == <<>> \o [p \in 1..n |-> item]

\* the texts of up to three items, and lists of numbers about as long as
\* max_n allows, with and without a word at the end
CustomTexts ==
    {join(its) : its \in SeqsUpTo(Items, 3)}
    \cup {join(Repeat(<<"7">>, n)) :
             n \in {MaxCustomHeap, MaxCustomHeap + 1, MaxCustomOther, MaxCustomOther + 1}}
    \cup {join(Append(Repeat(<<"7">>, n), <<"x">>)) : n \in {MinCustom, MaxCustomHeap}}
    \cup {<<" ">>, <<" ", ",", " ">>, <<"5", " ", "0">>, <<"-">>}

\* a list with a word in it and a list that is accepted
ShortTexts ==
    {join(<<<<"7">>, <<"x">>, <<"5">>>>),
     join(<<<<" ", "1", "2">>, <<"-", "1", " ">>, <<>>, <<"7">>>>)}

(***************************************************************************)
(* PerformanceAnalyzer.measure_sort (analyzer.py)                          *)
(*                                                                         *)
(* The clock is read in whole seconds and the peak in whole KiB, so that  *)
(* (end_time - start_time) * 1000 and peak / 1024 are integers.  The      *)
(* callable passed is one of the five functions of ALGORITHM_MAP or one   *)
(* of four other callables: measure_sort takes any.                        *)
(***************************************************************************)
ClockReadings == {0, 1}      \* time.perf_counter(), seconds
PeakReadings == {0, 1024}    \* peak of tracemalloc.get_traced_memory(), bytes

SignValues == {0 - 1, 0, 1}
MeasureInputs == {Tagged(v) : v \in SeqsUpTo(SignValues, MaxSample)}

DATASET_TYPES == {"Random", "Reverse Sorted", "Partially Sorted"}

FAULTY_FUNCTIONS == {"raises", "returns_reversed", "returns_zeros", "returns_none"}
SORT_FUNCTIONS == ALGORITHM_NAMES \cup FAULTY_FUNCTIONS

Reverse(a) == <<>> \o [p \in 1..Len(a) |-> a[Len(a) + 1 - p]]
Zeros(a) == <<>> \o [p \in 1..Len(a) |-> <<0, a[p][2]>>]

\* sort_function(data_copy): the heap it leaves, the list it returns (None
\* when it returns None) and the description of the exception it raises
call_sort_function(fn, h, arr) ==
    CASE fn \in ALGORITHM_NAMES ->
            LET r == ALGORITHM_MAP(fn, h, arr)
            IN  [heap |-> r.heap, ref |-> r.ref, exc |-> NoException]
      [] fn = "raises" ->               \* raise ValueError("unsupported input")
            [heap |-> h, ref |-> None, exc |-> "unsupported input"]
      [] fn = "returns_reversed" ->     \* return sorted(arr, reverse=True)
            LET r == merge_sort(h, arr)
                n == Cardinality(DOMAIN h) + 1
            IN  [heap |-> h @@ (n :> Reverse(r.heap[r.ref])), ref |-> n, exc |-> NoException]
      [] fn = "returns_zeros" ->        \* return [0] * len(arr)
            LET n == Cardinality(DOMAIN h) + 1
            IN  [heap |-> h @@ (n :> Zeros(h[arr])), ref |-> n, exc |-> NoException]
      [] fn = "returns_none" ->         \* arr.sort() in place, no return statement
            LET r == merge_sort(h, arr)
            IN  [heap |-> (arr :> r.heap[r.ref]) @@ h, ref |-> None, exc |-> NoException]

PerformanceResult(name, time_ms, memory_kb, size, label, success, error_message) ==
    [algorithm_name |-> name, time_ms |-> time_ms, memory_kb |-> memory_kb,
     data_size |-> size, data_type |-> label,
     success |-> success, error_message |-> error_message]

\* for i in range(len(arr) - 1): if arr[i] > arr[i + 1]: return False
RECURSIVE _verify_sorted_short(_, _)
_verify_sorted_short(a, i) ==
    IF i >= Len(a) - 2 THEN TRUE
    ELSE IF Key(At(a, i)) > Key(At(a, i + 1)) THEN FALSE
    ELSE _verify_sorted_short(a, i + 1)

RECURSIVE _verify_sorted_from(_, _)
_verify_sorted_from(a, i) ==
    IF i >= Len(a) - 1 THEN TRUE
    ELSE IF Key(At(a, i)) > Key(At(a, i + 1)) THEN FALSE
    ELSE _verify_sorted_from(a, i + 1)

_verify_sorted(a) == _verify_sorted_from(a, 0)

\* the result returned when the verification fails
verification_failed_zeroed(name, time_ms, memory_kb, size, label) ==
    PerformanceResult(name, 0, 0, size, label, FALSE, "Sorting verification failed")

verification_failed(name, time_ms, memory_kb, size, label) ==
    PerformanceResult(name, time_ms, memory_kb, size, label, FALSE,
                      "Sorting verification failed")

\* except Exception as e, entered with tracemalloc in state t
on_exception_leak(t, name, size, label, e) ==
    [tracing |-> t,
     result |-> PerformanceResult(name, 0, 0, size, label, FALSE, e)]

on_exception(t, name, size, label, e) ==
    [tracing |-> IF t THEN FALSE ELSE t,
     result |-> PerformanceResult(name, 0, 0, size, label, FALSE, e)]

\* measure_sort(sort_function, data, algorithm_name, data_type); the clock
\* reads start_time and end_time around the call and peak is the peak of
\* traced memory in bytes
measure_sort(fn, h, d, name, label, start_time, end_time, peak) ==
    LET c == list_copy(h, d)                      \* data_copy = data.copy()
        size == Len(h[d])
        started == TRUE                           \* tracemalloc.start()
        r == call_sort_function(fn, c.heap, c.ref)
        time_ms == (end_time - start_time) * 1000
        memory_kb == peak \div 1024
        stopped == FALSE                          \* tracemalloc.stop()
        m == [start_time |-> start_time, end_time |-> end_time, peak |-> peak]
    IN  IF r.exc # NoException
        THEN LET x == on_exception(started, name, size, label, r.exc)
             IN  [heap |-> r.heap, sorted_data |-> None, measured |-> NoLocals,
                  tracing |-> x.tracing, result |-> x.result]
        ELSE IF r.ref = None                      \* len(None) in _verify_sorted
        THEN LET x == on_exception(stopped, name, size, label,
                                   "object of type 'NoneType' has no len()")
             IN  [heap |-> r.heap, sorted_data |-> None, measured |-> m,
                  tracing |-> x.tracing, result |-> x.result]
        ELSE IF ~_verify_sorted(r.heap[r.ref])
        THEN [heap |-> r.heap, sorted_data |-> r.ref, measured |-> m,
              tracing |-> stopped,
              result |-> verification_failed(name, time_ms, memory_kb, size, label)]
        ELSE [heap |-> r.heap, sorted_data |-> r.ref, measured |-> m,
              tracing |-> stopped,
              result |-> PerformanceResult(name, time_ms, memory_kb, size, label,
                                           TRUE, "")]

(***************************************************************************)
(* UltimateSortingAnalyzer (main.py): the control panel and the sweep     *)
(*                                                                         *)
(* A dataset of `size` elements is held as a list of Sample(size)         *)
(* elements with values of RandomValues: sizes are the program's numbers, *)
(* the lists sorted are short.  A measurement reads one second and one    *)
(* KiB per element sorted.  A progress value is a fraction num/den.        *)
(***************************************************************************)
SliderFrom == 1000
SliderTo == 100000
SliderSteps == 99
DefaultSize == 10000
MinTestSize == 100
TestPoints == 5

ALGORITHM_ORDER == <<"Quick Sort", "Heap Sort", "Shell Sort", "Merge Sort", "Radix Sort">>
Presets == {1000, 10000, 50000, 100000}
SliderPositions ==
    {SliderFrom + k * ((SliderTo - SliderFrom) \div SliderSteps) : k \in 0..MaxSliderSteps}

Sample(size) == IF size < MaxSample THEN size ELSE MaxSample

\* DataGenerator.random(size): the lists it can return
RandomValues == {0 - 1, 1}
DataGenerator_random(n) == {Tagged(v) : v \in [1..n -> RandomValues]}

\* DataGenerator.reverse(size) = list(range(size, 0, -1))
DataGenerator_reverse(n) == Tagged(<<>> \o [p \in 1..n |-> n + 1 - p])

\* DataGenerator.partial(size): range(size) after int(size * 0.1) swaps of
\* two random positions
RECURSIVE partial_swaps(_, _, _)
partial_swaps(lists, swaps, n) ==
    IF swaps = 0 THEN lists
    ELSE partial_swaps({Swap(d, i, j) : d \in lists, i \in 0..(n - 1), j \in 0..(n - 1)},
                       swaps - 1, n)

DataGenerator_partial(n) ==
    partial_swaps({Tagged(<<>> \o [p \in 1..n |-> p - 1])}, n \div 10, n)

\* the branch on dtype in _run_analysis
generate_data(dtype_, size) ==
    IF dtype_ = "Random" THEN DataGenerator_random(Sample(size))
    ELSE IF dtype_ = "Reverse Sorted" THEN {DataGenerator_reverse(Sample(size))}
    ELSE DataGenerator_partial(Sample(size))

py_max2(a, b) == IF a >= b THEN a ELSE b

\* test_sizes = [max(100, max_size // 5 * i) for i in range(1, 6)]
test_sizes_short(n) ==
    <<>> \o [i \in 1..(TestPoints - 1) |-> py_max2(MinTestSize, (n \div TestPoints) * i)]

test_sizes_from_zero(n) ==
    <<>> \o [i \in 1..TestPoints |-> py_max2(MinTestSize, (n \div TestPoints) * (i - 1))]

test_sizes_descending(n) ==
    <<>> \o [i \in 1..TestPoints |->
                 py_max2(MinTestSize, (n \div TestPoints) * (TestPoints + 1 - i))]

test_sizes_of(n) ==
    <<>> \o [i \in 1..TestPoints |-> py_max2(MinTestSize, (n \div TestPoints) * i)]

\* current_test / total_tests * 0.9 + 0.05 as the fraction
\* (90 * current_test + 5 * total_tests) / (100 * total_tests)
Fraction(num, den) == [num |-> num, den |-> den]

test_progress_unscaled(current, total) ==
    Fraction(100 * current + 5 * total, 100 * total)

test_progress(current, total) ==
    Fraction(90 * current + 5 * total, 100 * total)

\* PerformanceResult of main.py: it has no success and no error_message field
main_PerformanceResult(algorithm, time_ms, memory_kb, data_size_, data_type_) ==
    [algorithm |-> algorithm, time_ms |-> time_ms, memory_kb |-> memory_kb,
     data_size |-> data_size_, data_type |-> data_type_]

\* [n for n, v in self.algo_vars.items() if v.get()]: algo_vars holds the
\* names whose variable is true, the dictionary keeps the order of ALGORITHM_MAP
selection(checked) == SelectSeq(ALGORITHM_ORDER, LAMBDA n : n \in checked)

\* the keys of a results dictionary, in insertion order
keys_in_order(d) == SelectSeq(ALGORITHM_ORDER, LAMBDA n : n \in DOMAIN d)

NoText == [kind |-> "", algo |-> "", size |-> 0]
NoGuide == [text |-> "Click START to analyze.", fastest |-> "", efficient |-> ""]
Callback(name, args) == [name |-> name, args |-> args]

\* the application after construction and its startup animation
SweepIdleBut ==
    /\ is_running = FALSE
    /\ run_btn = "normal"
    /\ status = "Ready"
    /\ algo_vars = ALGORITHM_NAMES
    /\ data_size = DefaultSize
    /\ dataset_type = "Random"
    /\ progress = [text |-> NoText, val |-> Fraction(0, 1)]
    /\ pending = <<>>
    /\ charts = "empty"
    /\ guide = NoGuide
    /\ self_multi_results = NoLocals
    /\ self_test_sizes = NoLocals
    /\ pc = "none"
    /\ dtype = ""
    /\ selected = <<>>
    /\ multi_results = <<>>
    /\ total_tests = 0
    /\ current_test = 0
    /\ size_idx = 0
    /\ algo_idx = 0
    /\ exception = NoException
    /\ configuring = TRUE
    /\ order = <<>>
    /\ generated = <<>>
    /\ dataset = <<>>
    /\ arr_seen = <<>>
    /\ threads = 0
    /\ refused = FALSE

SweepIdle ==
    /\ SweepIdleBut
    /\ max_size = 0
    /\ test_sizes = <<>>

\* no list, no window
EngineIdle ==
    /\ algorithm_name = None
    /\ heap = <<>>
    /\ array = <<>>
    /\ data = None
    /\ sorted_data = None
    /\ radix_locals = NoLocals
    /\ steps = <<>>
    /\ window = "new"
    /\ writes = 0

\* the controls of a window before _create_ui
ReplayIdle ==
    /\ original_array = <<>>
    /\ current_step = 0
    /\ viz_is_running = FALSE
    /\ step_btn = [state |-> "normal", text |-> ""]
    /\ play_btn = [state |-> "normal", text |-> ""]
    /\ timers = 0
    /\ last_op = [name |-> "", text |-> <<>>]

\* run_analysis has not been called
AnalysisIdle ==
    /\ algorithms = <<>>
    /\ analysis_results = <<>>
    /\ reported = <<>>
    /\ analysis_pc = "none"
    /\ progress_callback = "None"

\* shell_sort has not been called
ShellIdle ==
    /\ shell_gap = 0
    /\ gaps_used = <<>>
    /\ shell_pc = "none"

RestIdle == ReplayIdle /\ AnalysisIdle /\ ShellIdle

(***************************************************************************)
(* State machine                                                           *)
(*                                                                         *)
(* A caller holds a list and calls the sort function selected (Spec); a   *)
(* visualization window for the same algorithm is built on a list with    *)
(* the same contents (TraceSpec).                                          *)
(***************************************************************************)
\* measure_sort has not been called
NoMeasurement ==
    /\ sort_function = None
    /\ data_type = ""
    /\ tracing = FALSE
    /\ measured = NoLocals
    /\ result = NoLocals
    /\ calls = 0

Init ==
    /\ algorithm_name \in ALGORITHM_NAMES
    /\ \E input \in Inputs :
          /\ heap = (1 :> input)
          /\ array = input
    /\ data = 1
    /\ sorted_data = None
    /\ radix_locals = NoLocals
    /\ steps = <<>>
    /\ window = "new"
    /\ writes = 0
    /\ NoMeasurement
    /\ SweepIdle
    /\ RestIdle

\* sorted_data = ALGORITHM_MAP[algorithm_name](data)
CallSort ==
    /\ sorted_data = None
    /\ LET r == ALGORITHM_MAP(algorithm_name, heap, data)
       IN  /\ heap' = r.heap
           /\ sorted_data' = r.ref
           /\ radix_locals' = IF algorithm_name = "Radix Sort" THEN r.locals ELSE NoLocals
    /\ UNCHANGED <<algorithm_name, data, array, steps, window, writes>>
    /\ UNCHANGED <<measure_vars, sweep_vars>>
    /\ UNCHANGED rest_vars

\* the element a caller appends: the value 0 with an identity no input element has
NewElement == <<0, 0>>

\* after the call the caller appends an element to the list it passed
WriteInput ==
    /\ sorted_data # None
    /\ writes < MaxWrites
    /\ heap' = [heap EXCEPT ![data] = Append(heap[data], NewElement)]
    /\ writes' = writes + 1
    /\ UNCHANGED <<algorithm_name, data, sorted_data, radix_locals, array, steps, window>>
    /\ UNCHANGED <<measure_vars, sweep_vars>>
    /\ UNCHANGED rest_vars

\* after the call the caller appends an element to the list it got back
WriteResult ==
    /\ sorted_data # None
    /\ writes < MaxWrites
    /\ heap' = [heap EXCEPT ![sorted_data] = Append(heap[sorted_data], NewElement)]
    /\ writes' = writes + 1
    /\ UNCHANGED <<algorithm_name, data, sorted_data, radix_locals, array, steps, window>>
    /\ UNCHANGED <<measure_vars, sweep_vars>>
    /\ UNCHANGED rest_vars

\* self._generate_steps() in __init__; an exception leaves the window unbuilt
GenerateSteps ==
    /\ window = "new"
    /\ LET r == _generate_steps(algorithm_name, array)
       IN  /\ steps' = r.steps
           /\ window' = IF r.exc = NoException THEN "ready" ELSE r.exc
    /\ UNCHANGED <<algorithm_name, heap, data, sorted_data, radix_locals, array, writes>>
    /\ UNCHANGED <<measure_vars, sweep_vars>>
    /\ UNCHANGED rest_vars

\* the sorting engine and its caller
Next == CallSort \/ WriteInput \/ WriteResult

Spec == Init /\ [][Next]_vars

\* the step recorder of the window
TraceNext == GenerateSteps

TraceSpec == Init /\ [][TraceNext]_vars

(***************************************************************************)
(* A caller of measure_sort: it holds a list and measures one callable on *)
(* it, again and again (MeasureSpec).                                      *)
(***************************************************************************)
MeasureInit ==
    /\ sort_function \in SORT_FUNCTIONS
    /\ algorithm_name = sort_function
    /\ data_type = "Random"
    /\ \E input \in MeasureInputs :
          /\ heap = (1 :> input)
          /\ array = input
    /\ data = 1
    /\ sorted_data = None
    /\ radix_locals = NoLocals
    /\ steps = <<>>
    /\ window = "new"
    /\ writes = 0
    /\ tracing = FALSE
    /\ measured = NoLocals
    /\ result = NoLocals
    /\ calls = 0
    /\ SweepIdle
    /\ RestIdle

\* result = PerformanceAnalyzer.measure_sort(sort_function, data, algorithm_name, data_type);
\* the lists of an earlier call are garbage by now
MeasureSort ==
    /\ \E start_time \in ClockReadings, peak \in PeakReadings :
          \E end_time \in {t \in ClockReadings : t >= start_time} :
             LET r == measure_sort(sort_function, (data :> heap[data]), data, algorithm_name,
                                   data_type, start_time, end_time, peak)
             IN  /\ heap' = r.heap
                 /\ sorted_data' = r.sorted_data
                 /\ tracing' = r.tracing
                 /\ measured' = r.measured
                 /\ result' = r.result
    /\ calls' = IF calls < MaxCalls THEN calls + 1 ELSE calls
    /\ UNCHANGED <<algorithm_name, data, radix_locals, array, steps, window, writes,
                   sort_function, data_type>>
    /\ UNCHANGED sweep_vars
    /\ UNCHANGED rest_vars

MeasureNext == MeasureSort

MeasureSpec == MeasureInit /\ [][MeasureNext]_vars

(***************************************************************************)
(* The control panel and one sweep worker at a time (SweepSpec).  The     *)
(* user sets the panel until the first worker has read it; what is set    *)
(* later is read by no worker before the next start request, and the      *)
(* model starts the next sweep on the panel as it is.                      *)
(***************************************************************************)
SweepInit ==
    /\ EngineIdle
    /\ NoMeasurement
    /\ SweepIdle
    /\ RestIdle

\* a click on the check box of an algorithm
ToggleAlgorithm ==
    /\ configuring
    /\ \E a \in ALGORITHM_NAMES :
          algo_vars' = IF a \in algo_vars THEN algo_vars \ {a} ELSE algo_vars \cup {a}
    /\ UNCHANGED <<data_size, dataset_type>>
    /\ UNCHANGED <<engine_vars, measure_vars, widget_vars, worker_vars, history_vars,
                   progress, pending, self_multi_results, self_test_sizes>>
    /\ UNCHANGED rest_vars

\* _on_size_change(val), the slider's command
OnSizeChange ==
    /\ configuring
    /\ \E val \in SliderPositions : data_size' = val
    /\ UNCHANGED <<algo_vars, dataset_type>>
    /\ UNCHANGED <<engine_vars, measure_vars, widget_vars, worker_vars, history_vars,
                   progress, pending, self_multi_results, self_test_sizes>>
    /\ UNCHANGED rest_vars

\* _set_size(val), the command of a preset button
SetSize ==
    /\ configuring
    /\ \E val \in Presets : data_size' = val
    /\ UNCHANGED <<algo_vars, dataset_type>>
    /\ UNCHANGED <<engine_vars, measure_vars, widget_vars, worker_vars, history_vars,
                   progress, pending, self_multi_results, self_test_sizes>>
    /\ UNCHANGED rest_vars

\* a choice in the option menu bound to dataset_type
SelectDatasetType ==
    /\ configuring
    /\ \E t \in DATASET_TYPES : dataset_type' = t
    /\ UNCHANGED <<algo_vars, data_size>>
    /\ UNCHANGED <<engine_vars, measure_vars, widget_vars, worker_vars, history_vars,
                   progress, pending, self_multi_results, self_test_sizes>>
    /\ UNCHANGED rest_vars

\* _start_analysis without its first check
_start_analysis_unchecked ==
    IF selection(algo_vars) = <<>>
    THEN UNCHANGED <<widget_vars, progress, pc, threads, refused>>
    ELSE /\ is_running' = TRUE
         /\ run_btn' = "disabled"
         /\ status' = "Running"
         /\ progress' = [text |-> progress.text, val |-> Fraction(0, 1)]
         /\ pc' = "spawned"                   \* threading.Thread(...).start()
         /\ threads' = threads + 1
         /\ refused' = FALSE
         /\ UNCHANGED <<charts, guide>>

\* _start_analysis
_start_analysis ==
    IF is_running
    THEN /\ refused' = TRUE
         /\ UNCHANGED <<widget_vars, progress, pc, threads>>
    ELSE _start_analysis_unchecked

\* a start request: _start_analysis is the command of the run button and is
\* taken to be callable at any time, whatever the state of the button
StartAnalysis ==
    /\ _start_analysis
    /\ UNCHANGED <<max_size, dtype, selected, test_sizes, multi_results, total_tests,
                   current_test, size_idx, algo_idx, exception>>
    /\ UNCHANGED <<configuring, order, generated, dataset, arr_seen>>
    /\ UNCHANGED <<engine_vars, measure_vars, panel_vars,
                   pending, self_multi_results, self_test_sizes>>
    /\ UNCHANGED rest_vars

\* _run_analysis up to the loop: the worker reads the panel
ReadConfig ==
    /\ pc = "spawned"
    /\ max_size' = data_size
    /\ dtype' = dataset_type
    /\ selected' = selection(algo_vars)
    /\ test_sizes' = test_sizes_of(data_size)
    /\ multi_results' = [algo \in algo_vars |-> <<>>]
    /\ total_tests' = Len(selection(algo_vars)) * Len(test_sizes_of(data_size))
    /\ current_test' = 0
    /\ size_idx' = 0
    /\ algo_idx' = 0
    /\ exception' = NoException
    /\ pc' = "size"
    /\ configuring' = FALSE
    /\ order' = <<>>
    /\ generated' = <<>>
    /\ UNCHANGED <<dataset, arr_seen, threads, refused>>
    /\ UNCHANGED <<engine_vars, measure_vars, panel_vars, widget_vars,
                   progress, pending, self_multi_results, self_test_sizes>>
    /\ UNCHANGED rest_vars

\* the size and the algorithm the two loops are at
Size == test_sizes[size_idx + 1]
Algo == selected[algo_idx + 1]

\* for size in test_sizes: the progress report and the dataset of that size
GenerateData ==
    /\ pc = "size"
    /\ IF total_tests = 0
       THEN /\ exception' = "ZeroDivisionError"          \* current_test / total_tests
            /\ pc' = "except"
            /\ UNCHANGED <<heap, data, sorted_data, progress, generated, dataset, algo_idx>>
       ELSE /\ progress' = [text |-> [kind |-> "Generating", algo |-> "", size |-> Size],
                            val |-> test_progress(current_test, total_tests)]
            /\ \E d \in generate_data(dtype, Size) :
                  /\ heap' = (1 :> d)
                  /\ dataset' = d
            /\ data' = 1
            /\ sorted_data' = None
            /\ generated' = Append(generated, Size)
            /\ algo_idx' = 0
            /\ pc' = "algo"
            /\ UNCHANGED exception
    /\ UNCHANGED <<algorithm_name, radix_locals, array, steps, window, writes>>
    /\ UNCHANGED <<max_size, dtype, selected, test_sizes, multi_results, total_tests,
                   current_test, size_idx>>
    /\ UNCHANGED <<measure_vars, panel_vars, widget_vars, configuring, order, arr_seen,
                   threads, refused, pending, self_multi_results, self_test_sizes>>
    /\ UNCHANGED rest_vars

\* for algo in selected: the progress report before the measurement
ReportTest ==
    /\ pc = "algo"
    /\ progress' = [text |-> [kind |-> "Testing", algo |-> Algo, size |-> Size],
                    val |-> test_progress(current_test, total_tests)]
    /\ pc' = "measure"
    /\ UNCHANGED <<max_size, dtype, selected, test_sizes, multi_results, total_tests,
                   current_test, size_idx, algo_idx, exception>>
    /\ UNCHANGED <<engine_vars, measure_vars, panel_vars, widget_vars, history_vars,
                   pending, self_multi_results, self_test_sizes>>
    /\ UNCHANGED rest_vars

\* the measurement on arr = data.copy() and the entry multi_results[algo][size];
\* then the next algorithm, the next size or the end of the loops
RunTest ==
    /\ pc = "measure"
    /\ LET c == list_copy((data :> heap[data]), data)
           r == ALGORITHM_MAP(Algo, c.heap, c.ref)
           elapsed == Len(c.heap[c.ref])
           peak == Len(c.heap[c.ref]) * 1024
           res == main_PerformanceResult(Algo, elapsed * 1000, peak \div 1024, Size, dtype)
       IN  /\ heap' = r.heap
           /\ sorted_data' = r.ref
           /\ arr_seen' = c.heap[c.ref]
           /\ multi_results' = (Algo :> ((Size :> res) @@ multi_results[Algo])) @@ multi_results
    /\ tracing' = FALSE                   \* tracemalloc.start() ... tracemalloc.stop()
    /\ current_test' = current_test + 1
    /\ order' = Append(order, <<Algo, Size>>)
    /\ IF algo_idx + 1 < Len(selected)
       THEN /\ algo_idx' = algo_idx + 1
            /\ pc' = "algo"
            /\ UNCHANGED size_idx
       ELSE IF size_idx + 1 < Len(test_sizes)
       THEN /\ size_idx' = size_idx + 1
            /\ pc' = "size"
            /\ UNCHANGED algo_idx
       ELSE /\ pc' = "complete"
            /\ UNCHANGED <<size_idx, algo_idx>>
    /\ UNCHANGED <<algorithm_name, data, radix_locals, array, steps, window, writes>>
    /\ UNCHANGED <<sort_function, data_type, measured, result, calls>>
    /\ UNCHANGED <<max_size, dtype, selected, test_sizes, total_tests, exception>>
    /\ UNCHANGED <<panel_vars, widget_vars, configuring, generated, dataset,
                   threads, refused, progress, pending, self_multi_results, self_test_sizes>>
    /\ UNCHANGED rest_vars

\* after the loops: the results are published and the display is scheduled
Complete ==
    /\ pc = "complete"
    /\ self_multi_results' = multi_results
    /\ self_test_sizes' = test_sizes
    /\ progress' = [text |-> [kind |-> "Creating charts", algo |-> "", size |-> 0],
                    val |-> Fraction(95, 100)]
    /\ pending' = Append(pending, Callback("_display_multi_results",
                                           <<multi_results, test_sizes, dtype, max_size>>))
    /\ pc' = "finally"
    /\ UNCHANGED <<max_size, dtype, selected, test_sizes, multi_results, total_tests,
                   current_test, size_idx, algo_idx, exception>>
    /\ UNCHANGED <<engine_vars, measure_vars, panel_vars, widget_vars, history_vars>>
    /\ UNCHANGED rest_vars

\* an except clause with no finally clause after it: the thread ends there
Except_unfinished ==
    /\ pc = "except"
    /\ pending' = Append(pending, Callback("status_error", <<>>))
    /\ pc' = "none"
    /\ threads' = threads - 1
    /\ UNCHANGED <<max_size, dtype, selected, test_sizes, multi_results, total_tests,
                   current_test, size_idx, algo_idx, exception>>
    /\ UNCHANGED <<configuring, order, generated, dataset, arr_seen, refused>>
    /\ UNCHANGED <<engine_vars, measure_vars, panel_vars, widget_vars,
                   progress, self_multi_results, self_test_sizes>>
    /\ UNCHANGED rest_vars

\* except Exception: the error status is scheduled
Except ==
    /\ pc = "except"
    /\ pending' = Append(pending, Callback("status_error", <<>>))
    /\ pc' = "finally"
    /\ UNCHANGED <<max_size, dtype, selected, test_sizes, multi_results, total_tests,
                   current_test, size_idx, algo_idx, exception>>
    /\ UNCHANGED <<engine_vars, measure_vars, panel_vars, widget_vars, history_vars,
                   progress, self_multi_results, self_test_sizes>>
    /\ UNCHANGED rest_vars

\* finally: _finish_analysis is scheduled and the worker ends; its lists
\* data and arr are garbage
Finally ==
    /\ pc = "finally"
    /\ pending' = Append(pending, Callback("_finish_analysis", <<>>))
    /\ pc' = "none"
    /\ heap' = <<>>
    /\ data' = None
    /\ sorted_data' = None
    /\ dataset' = <<>>
    /\ arr_seen' = <<>>
    /\ threads' = threads - 1
    /\ UNCHANGED <<algorithm_name, radix_locals, array, steps, window, writes>>
    /\ UNCHANGED <<max_size, dtype, selected, test_sizes, multi_results, total_tests,
                   current_test, size_idx, algo_idx, exception>>
    /\ UNCHANGED <<measure_vars, panel_vars, widget_vars, configuring, order, generated,
                   refused, progress, self_multi_results, self_test_sizes>>
    /\ UNCHANGED rest_vars

\* max(sizes)
RECURSIVE py_max_from(_, _, _)
py_max_from(sizes, i, best) ==
    IF i > Len(sizes) THEN best
    ELSE py_max_from(sizes, i + 1, py_max2(sizes[i], best))

\* min(results, key): the first of the smallest
RECURSIVE py_min_by(_, _, _, _)
py_min_by(rs, field, i, best) ==
    IF i > Len(rs) THEN best
    ELSE py_min_by(rs, field, i + 1, IF rs[i][field] < best[field] THEN rs[i] ELSE best)

\* _finish_analysis
_finish_analysis ==
    /\ is_running' = FALSE
    /\ run_btn' = "normal"
    /\ status' = "Complete"
    /\ IF DOMAIN self_multi_results # {}
       THEN LET names == keys_in_order(self_multi_results)
                final_results == <<>> \o [p \in 1..Len(names) |->
                                             self_multi_results[names[p]][py_max_from(self_test_sizes, 2,
                                                                          self_test_sizes[1])]]
                best_time == py_min_by(final_results, "time_ms", 2, final_results[1])
                best_mem == py_min_by(final_results, "memory_kb", 2, final_results[1])
            IN  guide' = [text |-> "Done!", fastest |-> best_time.algorithm,
                          efficient |-> best_mem.algorithm]
       ELSE UNCHANGED guide
    /\ UNCHANGED charts

\* _display_multi_results: the charts and the report look up the result at
\* max_size for every algorithm
_display_multi_results(results, sizes, dtype_, max_size_) ==
    /\ charts' = IF \A a \in DOMAIN results : max_size_ \in DOMAIN results[a]
                 THEN "shown" ELSE "KeyError"
    /\ UNCHANGED <<is_running, run_btn, status, guide>>

\* the event loop runs the oldest callback scheduled with after(0, ...)
RunCallback ==
    /\ pending # <<>>
    /\ pending' = Tail(pending)
    /\ LET cb == Head(pending)
       IN  CASE cb.name = "_display_multi_results" ->
                    _display_multi_results(cb.args[1], cb.args[2], cb.args[3], cb.args[4])
             [] cb.name = "status_error" ->
                    /\ status' = "Error"
                    /\ UNCHANGED <<is_running, run_btn, charts, guide>>
             [] cb.name = "_finish_analysis" -> _finish_analysis
    /\ UNCHANGED <<engine_vars, measure_vars, panel_vars, worker_vars, history_vars,
                   progress, self_multi_results, self_test_sizes>>
    /\ UNCHANGED rest_vars

SweepNext ==
    \/ ToggleAlgorithm \/ OnSizeChange \/ SetSize \/ SelectDatasetType
    \/ StartAnalysis
    \/ ReadConfig \/ GenerateData \/ ReportTest \/ RunTest
    \/ Complete \/ Except \/ Finally
    \/ RunCallback

SweepSpec == SweepInit /\ [][SweepNext]_vars

\* where the worker thread can be
WorkerLabels == {"none", "spawned", "size", "algo", "measure", "complete", "except", "finally"}

\* a step of the worker thread: every step of ReadConfig, GenerateData,
\* ReportTest, RunTest, Complete, Except and Finally moves pc, and while a
\* thread is alive nothing else does
WorkerStep ==
    /\ pc # "none"
    /\ pc' \in WorkerLabels

\* the operating system runs a thread that can run, and the event loop runs
\* the callbacks scheduled
FairSweepSpec == SweepSpec /\ WF_pc(WorkerStep) /\ WF_vars(RunCallback)

(***************************************************************************)
(* The sizes of a sweep as a function of the maximum size (SizeSpec)      *)
(***************************************************************************)
SizeArguments == 0..SliderTo

SizeInit ==
    /\ EngineIdle
    /\ NoMeasurement
    /\ SweepIdleBut
    /\ max_size \in SizeArguments
    /\ test_sizes = <<>>
    /\ RestIdle

\* the test sizes _run_analysis derives from max_size
DeriveSizes ==
    /\ test_sizes = <<>>
    /\ test_sizes' = test_sizes_of(max_size)
    /\ UNCHANGED <<pc, max_size, dtype, selected, multi_results, total_tests,
                   current_test, size_idx, algo_idx, exception>>
    /\ UNCHANGED <<engine_vars, measure_vars, panel_vars, widget_vars, history_vars,
                   progress, pending, self_multi_results, self_test_sizes>>
    /\ UNCHANGED rest_vars

SizeNext == DeriveSizes

SizeSpec == SizeInit /\ [][SizeNext]_vars

(***************************************************************************)
(* A visualization window and its user (ReplaySpec)                        *)
(***************************************************************************)
Window ==
    [array |-> array, original_array |-> original_array, steps |-> steps,
     current_step |-> current_step, is_running |-> viz_is_running,
     step_btn |-> step_btn, play_btn |-> play_btn, timers |-> timers]

\* the window after the handler named has run; the handler runs once
Handled(after, name, text) ==
    \E w \in {after} :
        /\ array' = w.array
        /\ original_array' = w.original_array
        /\ steps' = w.steps
        /\ current_step' = w.current_step
        /\ viz_is_running' = w.is_running
        /\ step_btn' = w.step_btn
        /\ play_btn' = w.play_btn
        /\ timers' = w.timers
        /\ last_op' = [name |-> name, text |-> text]
        /\ UNCHANGED <<algorithm_name, heap, data, sorted_data, radix_locals, window, writes>>
        /\ UNCHANGED <<measure_vars, sweep_vars, analysis_vars, shell_vars>>

\* the window after __init__ ("STEP ->" and "> AUTO" stand for the texts with
\* the arrow and the triangle)
ReplayInit ==
    /\ algorithm_name \in ALGORITHM_NAMES
    /\ array \in RandomArrays
    /\ original_array = array
    /\ steps = _generate_steps(algorithm_name, array).steps
    /\ window = "ready"
    /\ current_step = 0
    /\ viz_is_running = FALSE
    /\ step_btn = Button("normal", "STEP ->")
    /\ play_btn = Button("normal", "> AUTO")
    /\ timers = 0
    /\ last_op = [name |-> "__init__", text |-> <<>>]
    /\ heap = <<>>
    /\ data = None
    /\ sorted_data = None
    /\ radix_locals = NoLocals
    /\ writes = 0
    /\ NoMeasurement
    /\ SweepIdle
    /\ AnalysisIdle
    /\ ShellIdle

\* the STEP button
StepForward == Handled(_step_forward(Window), "_step_forward", <<>>)

\* the AUTO / STOP button; the calls scheduled are counted up to MaxTimers
ToggleAuto ==
    /\ timers < MaxTimers
    /\ Handled(_toggle_auto(Window), "_toggle_auto", <<>>)

\* the event loop makes a call of _auto_play that after(...) scheduled
AutoPlay ==
    /\ timers > 0
    /\ Handled(_auto_play([Window EXCEPT !.timers = timers - 1]), "_auto_play", <<>>)

\* the RESTART button
Restart == Handled(_restart(algorithm_name, Window), "_restart", <<>>)

\* the Random button
Randomize ==
    \E drawn \in RandomArrays :
        Handled(_randomize(algorithm_name, Window, drawn), "_randomize", <<>>)

\* the Apply button, on one of a few texts
ApplyShortText ==
    \E text \in ShortTexts :
        Handled(_apply_custom(algorithm_name, Window, text), "_apply_custom", text)

ReplayNext ==
    \/ StepForward \/ ToggleAuto \/ AutoPlay
    \/ Restart \/ Randomize \/ ApplyShortText

ReplaySpec == ReplayInit /\ [][ReplayNext]_vars

(***************************************************************************)
(* One press of Apply at any point of a replay (CustomSpec)                *)
(***************************************************************************)
Applied == last_op.name = "_apply_custom"

\* STEP and AUTO / STOP before the text is applied
StepBefore == ~Applied /\ StepForward
ToggleBefore == ~Applied /\ ToggleAuto

\* the Apply button, on any of the texts
ApplyCustom ==
    /\ ~Applied
    /\ \E text \in CustomTexts :
          Handled(_apply_custom(algorithm_name, Window, text), "_apply_custom", text)

CustomNext == StepBefore \/ ToggleBefore \/ ApplyCustom

CustomSpec == ReplayInit /\ [][CustomNext]_vars

(***************************************************************************)
(* PerformanceAnalyzer.run_analysis (RunAnalysisSpec)                      *)
(*                                                                         *)
(* A caller passes a dictionary of callables, a list and, or not, a        *)
(* progress callback that records its arguments.  The dictionary is held   *)
(* as the list of its keys in insertion order, each key naming the        *)
(* callable it maps to.  The steps are the calls run_analysis makes.       *)
(***************************************************************************)
\* the dictionaries passed: up to MaxAlgorithms distinct keys, in any order
Dictionaries ==
    {d \in SeqsUpTo(SORT_FUNCTIONS, MaxAlgorithms) :
        \A p, q \in 1..Len(d) : p # q => d[p] # d[q]}

\* one measurement of the loop: the clock reads one second and the peak one KiB
measure_one(fn, h, d, label) == measure_sort(fn, h, d, fn, label, 0, 1, 1024)

RunAnalysisInit ==
    /\ algorithms \in Dictionaries
    /\ progress_callback \in {"None", "record"}
    /\ data_type = "Random"
    /\ \E input \in MeasureInputs :
          /\ heap = (1 :> input)
          /\ array = input
    /\ data = 1
    /\ analysis_results = <<>>            \* results = []
    /\ reported = <<>>
    /\ analysis_pc = "loop"
    /\ algorithm_name = ""
    /\ sort_function = None
    /\ sorted_data = None
    /\ radix_locals = NoLocals
    /\ steps = <<>>
    /\ window = "new"
    /\ writes = 0
    /\ tracing = FALSE
    /\ measured = NoLocals
    /\ result = NoLocals
    /\ calls = 0
    /\ SweepIdle
    /\ ReplayIdle
    /\ ShellIdle

\* for idx, (name, func) in enumerate(algorithms.items()):
\*     if progress_callback: progress_callback(name, idx + 1, total)
ReportProgress ==
    /\ analysis_pc = "loop"
    /\ Len(analysis_results) < Len(algorithms)
    /\ LET idx == Len(analysis_results)
           name == algorithms[idx + 1]
           total == Len(algorithms)
       IN  reported' = IF progress_callback # "None"
                       THEN Append(reported, <<name, idx + 1, total>>)
                       ELSE reported
    /\ analysis_pc' = "measure"
    /\ UNCHANGED <<algorithms, analysis_results, progress_callback>>
    /\ UNCHANGED <<engine_vars, measure_vars, sweep_vars, replay_vars, shell_vars>>

\* the loop ends at the first result that reports a failure
Measure_stopping ==
    /\ analysis_pc = "measure"
    /\ LET func == algorithms[Len(analysis_results) + 1]
       IN  \E r \in {measure_one(func, (data :> heap[data]), data, data_type)} :
              /\ heap' = r.heap
              /\ analysis_results' = Append(analysis_results, r.result)
              /\ analysis_pc' = IF r.result.success THEN "loop" ELSE "returned"
    /\ UNCHANGED <<algorithms, reported, progress_callback>>
    /\ UNCHANGED <<algorithm_name, data, sorted_data, radix_locals, array, steps, window, writes>>
    /\ UNCHANGED <<measure_vars, sweep_vars, replay_vars, shell_vars>>

\* result = PerformanceAnalyzer.measure_sort(func, data, name, data_type)
\* results.append(result)
Measure ==
    /\ analysis_pc = "measure"
    /\ LET func == algorithms[Len(analysis_results) + 1]
       IN  \E r \in {measure_one(func, (data :> heap[data]), data, data_type)} :
              /\ heap' = r.heap
              /\ analysis_results' = Append(analysis_results, r.result)
    /\ analysis_pc' = "loop"
    /\ UNCHANGED <<algorithms, reported, progress_callback>>
    /\ UNCHANGED <<algorithm_name, data, sorted_data, radix_locals, array, steps, window, writes>>
    /\ UNCHANGED <<measure_vars, sweep_vars, replay_vars, shell_vars>>

\* return results
ReturnResults ==
    /\ analysis_pc = "loop"
    /\ Len(analysis_results) >= Len(algorithms)
    /\ analysis_pc' = "returned"
    /\ UNCHANGED <<algorithms, analysis_results, reported, progress_callback>>
    /\ UNCHANGED <<engine_vars, measure_vars, sweep_vars, replay_vars, shell_vars>>

RunAnalysisNext == ReportProgress \/ Measure \/ ReturnResults

RunAnalysisSpec == RunAnalysisInit /\ [][RunAnalysisNext]_vars

(***************************************************************************)
(* SortAlgorithms.shell_sort pass by pass (ShellSpec)                      *)
(*                                                                         *)
(* A caller holds a list of up to MaxShellLen elements and calls           *)
(* shell_sort; the steps are the computation of the first gap, the passes  *)
(* of the gap loop and the return.                                         *)
(***************************************************************************)
\* lists of n elements: falling, rising, and of two values in turn
ShellInputs ==
    UNION {{Tagged(<<>> \o [p \in 1..n |-> n - p]),
            Tagged(<<>> \o [p \in 1..n |-> p]),
            Tagged(<<>> \o [p \in 1..n |-> p % 2])} : n \in 0..MaxShellLen}

ShellInit ==
    /\ algorithm_name = "Shell Sort"
    /\ \E input \in ShellInputs :
          /\ heap = (1 :> input)
          /\ array = input
    /\ data = 1
    /\ sorted_data = None
    /\ radix_locals = NoLocals
    /\ steps = <<>>
    /\ window = "new"
    /\ writes = 0
    /\ NoMeasurement
    /\ SweepIdle
    /\ RestIdle

\* the local list arr of the call: the copy, which is the newest list
shell_arr == Cardinality(DOMAIN heap)

\* arr = arr.copy(); n = len(arr); gap = 1; while gap < n // 3: gap = gap * 3 + 1
ShellStart ==
    /\ shell_pc = "none"
    /\ LET c == list_copy(heap, data)
       IN  /\ heap' = c.heap
           /\ shell_gap' = knuth_gap(1, Len(c.heap[c.ref]))
    /\ shell_pc' = "loop"
    /\ UNCHANGED <<algorithm_name, data, sorted_data, radix_locals, array, steps, window,
                   writes, gaps_used>>
    /\ UNCHANGED <<measure_vars, sweep_vars, replay_vars, analysis_vars>>

\* the pass that ends at the first element it takes
ShellPass_short ==
    /\ shell_pc = "loop"
    /\ shell_gap > 0
    /\ heap' = [heap EXCEPT ![shell_arr] =
                   shell_pass(heap[shell_arr], shell_gap, shell_gap,
                              IF shell_gap < Len(heap[shell_arr]) THEN shell_gap + 1
                              ELSE Len(heap[shell_arr]))]
    /\ gaps_used' = Append(gaps_used, shell_gap)
    /\ shell_gap' = shell_gap \div 3
    /\ UNCHANGED <<algorithm_name, data, sorted_data, radix_locals, array, steps, window,
                   writes, shell_pc>>
    /\ UNCHANGED <<measure_vars, sweep_vars, replay_vars, analysis_vars>>

\* while gap > 0: the pass for i in range(gap, n), then gap //= 3
ShellPass ==
    /\ shell_pc = "loop"
    /\ shell_gap > 0
    /\ heap' = [heap EXCEPT ![shell_arr] =
                   shell_pass(heap[shell_arr], shell_gap, shell_gap, Len(heap[shell_arr]))]
    /\ gaps_used' = Append(gaps_used, shell_gap)
    /\ shell_gap' = shell_gap \div 3
    /\ UNCHANGED <<algorithm_name, data, sorted_data, radix_locals, array, steps, window,
                   writes, shell_pc>>
    /\ UNCHANGED <<measure_vars, sweep_vars, replay_vars, analysis_vars>>

\* the gap loop ends; return arr
ShellReturn ==
    /\ shell_pc = "loop"
    /\ shell_gap <= 0
    /\ sorted_data' = shell_arr
    /\ shell_pc' = "returned"
    /\ UNCHANGED <<algorithm_name, heap, data, radix_locals, array, steps, window, writes,
                   shell_gap, gaps_used>>
    /\ UNCHANGED <<measure_vars, sweep_vars, replay_vars, analysis_vars>>

ShellNext == ShellStart \/ ShellPass \/ ShellReturn

ShellSpec == ShellInit /\ [][ShellNext]_vars

(***************************************************************************)
(* Properties                                                              *)
(***************************************************************************)
Data == heap[data]
Result == heap[sorted_data]

\* the sort function has returned and the caller has not written since
JustReturned == sorted_data # None /\ writes = 0

IsSorted(a) == \A p \in 1..(Len(a) - 1) : Key(a[p]) <= Key(a[p + 1])
NonNegative(a) == \A p \in 1..Len(a) : Key(a[p]) >= 0
Count(a, v) == Cardinality({p \in 1..Len(a) : Key(a[p]) = v})
ValuesOf(a) == {Key(a[p]) : p \in 1..Len(a)}
\* same length, same multiset of values
IsPermutation(a, b) ==
    /\ Len(a) = Len(b)
    /\ \A v \in ValuesOf(a) \cup ValuesOf(b) : Count(a, v) = Count(b, v)

\* C1 (as stated): whatever the algorithm and the integers of the input, the
\* returned list is non-decreasing.
C1_SortedAnyIntegers == JustReturned => IsSorted(Result)

\* C1 (amended): the returned list is non-decreasing for quick, heap, shell
\* and merge sort on every list of integers, and for radix sort on every
\* list of non-negative integers.
C1_Sorted ==
    JustReturned /\ (algorithm_name = "Radix Sort" => NonNegative(array)) => IsSorted(Result)

\* a quick sort has returned on an unsorted input holding a negative value
C1_Witness ==
    /\ JustReturned
    /\ algorithm_name = "Quick Sort"
    /\ Len(array) >= 3
    /\ ~IsSorted(array)
    /\ ~NonNegative(array)
    /\ IsSorted(Result)

\* C2: the returned list is a permutation of the input (same length, same
\* multiset of values), for the five functions and every list of integers,
\* the empty and the one-element list included.
C2_Permutation == JustReturned => IsPermutation(Result, array)

\* a radix sort has returned on an input with a negative and a repeated
\* value, in another order than the input's
C2_Witness ==
    /\ JustReturned
    /\ algorithm_name = "Radix Sort"
    /\ ~NonNegative(array)
    /\ \E p, q \in 1..Len(array) : p < q /\ Key(array[p]) = Key(array[q])
    /\ Vals(Result) # Vals(array)

\* C3: the call leaves the caller's list as it was and returns another list
\* (also radix sort on the empty list); afterwards a write to one of the two
\* lists does not show in the other.
C3_NonMutation ==
    [][/\ (sorted_data = None /\ sorted_data' # None) =>
              /\ data' = data
              /\ heap'[data] = heap[data]
              /\ sorted_data' # data
       /\ (sorted_data # None /\ heap'[data] # heap[data]) =>
              heap'[sorted_data] = heap[sorted_data]
       /\ (sorted_data # None /\ heap'[sorted_data] # heap[sorted_data]) =>
              heap'[data] = heap[data]]_vars

\* the caller has written to the list it passed after a sort that reordered
\* it, and the returned list still holds the sorted input
C3_Witness ==
    /\ sorted_data # None
    /\ writes > 0
    /\ ~IsSorted(array)
    /\ Len(Data) > Len(array)
    /\ Len(Result) = Len(array)
    /\ IsSorted(Result)

\* C4: merge sort and radix sort are stable: two elements with equal values
\* are in the output in the order they had in the input (an element's
\* identity is its position in the input).
C4_Stable ==
    JustReturned /\ algorithm_name \in {"Merge Sort", "Radix Sort"} =>
        \A p, q \in 1..Len(Result) :
            p < q /\ Key(Result[p]) = Key(Result[q]) => Result[p][2] < Result[q][2]

\* a merge sort has returned on an unsorted input with two equal values
\* that the midpoint separates
C4_Witness ==
    /\ JustReturned
    /\ algorithm_name = "Merge Sort"
    /\ ~IsSorted(array)
    /\ \E p, q \in 1..Len(array) :
          /\ p <= (Len(array) + 1) \div 2
          /\ q > (Len(array) + 1) \div 2
          /\ Key(array[p]) = Key(array[q])

\* C5 (as stated): sorting a non-decreasing list of integers returns a list
\* equal to it, for each of the five functions.
C5_IdempotentAnyIntegers ==
    JustReturned /\ IsSorted(array) => Vals(Result) = Vals(array)

\* C5 (amended): sorting a non-decreasing list returns a list equal to it,
\* for quick, heap, shell and merge sort on integers and for radix sort on
\* non-negative integers.
C5_Idempotent ==
    JustReturned /\ IsSorted(array) /\ (algorithm_name = "Radix Sort" => NonNegative(array))
        => Vals(Result) = Vals(array)

\* a shell sort with more than one gap has returned on a non-decreasing
\* input that is not constant
C5_Witness ==
    /\ JustReturned
    /\ algorithm_name = "Shell Sort"
    /\ knuth_gap(1, Len(array)) > 1
    /\ IsSorted(array)
    /\ Key(array[1]) < Key(array[Len(array)])

RECURSIVE NumDigits(_)
NumDigits(m) == IF m = 0 THEN 0 ELSE 1 + NumDigits(m \div 10)
RECURSIVE Pow10(_)
Pow10(d) == IF d = 0 THEN 1 ELSE 10 * Pow10(d - 1)
\* the list after one stable sort by the decimal digit of weight 10^k,
\* for k = 0 .. d-1 in this order
RECURSIVE StablePasses(_, _)
StablePasses(a, d) ==
    IF d = 0 THEN a ELSE sorted_by_digit(StablePasses(a, d - 1), Pow10(d - 1))

\* C6: on non-negative integers radix sort makes one stable pass per decimal
\* digit of the maximum (none when the maximum is 0), reads no maximum of
\* the empty list, and returns the non-decreasing permutation of the input.
C6_RadixPasses ==
    JustReturned /\ algorithm_name = "Radix Sort" /\ NonNegative(array) =>
        /\ IsSorted(Result)
        /\ IsPermutation(Result, array)
        /\ IF Len(array) = 0
           THEN radix_locals = NoLocals
           ELSE /\ radix_locals # NoLocals
                /\ radix_locals.max_val = py_max(array)
                /\ radix_locals.exp = Pow10(NumDigits(py_max(array)))
                /\ Result = StablePasses(array, NumDigits(py_max(array)))

\* radix sort has returned after two passes on an unsorted input of
\* non-negative values
C6_Witness ==
    /\ JustReturned
    /\ algorithm_name = "Radix Sort"
    /\ NonNegative(array)
    /\ ~IsSorted(array)
    /\ radix_locals # NoLocals
    /\ radix_locals.exp = 100

LastStep == steps[Len(steps)]
\* the step marks every index of its snapshot 'sorted'
AllSorted(step) ==
    \A i \in 0..(Len(step.array) - 1) :
        i \in DOMAIN step.highlights /\ step.highlights[i] = "sorted"
SortOf(name, input) ==
    LET r == ALGORITHM_MAP(name, (1 :> input), 1) IN r.heap[r.ref]

C8_SnapshotsArePermutations ==
    \A p \in 1..Len(steps) :
        /\ Len(steps[p].array) = Len(array)
        /\ IsPermutation(steps[p].array, array)

ExactlyOneFinal ==
    /\ Len(steps) >= 1
    /\ AllSorted(LastStep)
    /\ \A p \in 1..(Len(steps) - 1) : ~AllSorted(steps[p])

Measured == calls > 0

\* the callable returned a list (it did not raise and did not return None)
ReturnedList == Measured /\ sorted_data # None

\* C11: when the callable returns without raising and what it returns is not
\* non-decreasing, the result has success false, the message "Sorting
\* verification failed" and the time and memory measured for that run.
C11_VerificationFailure ==
    ReturnedList /\ ~IsSorted(heap[sorted_data]) =>
        /\ result.success = FALSE
        /\ result.error_message = "Sorting verification failed"
        /\ result.time_ms = (measured.end_time - measured.start_time) * 1000
        /\ result.memory_kb * 1024 = measured.peak

\* radix sort has returned an unsorted list for a list with a negative
\* value, and the run took time and memory
C11_Witness ==
    /\ ReturnedList
    /\ sort_function = "Radix Sort"
    /\ ~IsSorted(heap[sorted_data])
    /\ measured.end_time > measured.start_time
    /\ measured.peak > 0
    /\ result.time_ms > 0
    /\ result.memory_kb > 0
    /\ result.success = FALSE

\* C12: when the callable raises, measure_sort returns a result with success
\* false, time 0, memory 0, the length of the input as data_size and the
\* description of the error as message; and tracemalloc is not tracing after
\* measure_sort has returned, whatever the callable did.
C12_ExecutionFailure ==
    Measured =>
        /\ tracing = FALSE
        /\ sort_function = "raises" =>
              /\ result.success = FALSE
              /\ result.time_ms = 0
              /\ result.memory_kb = 0
              /\ result.data_size = Len(array)
              /\ result.error_message = "unsupported input"

\* the callable has raised on a list of two or more elements
C12_Witness ==
    /\ Measured
    /\ sort_function = "raises"
    /\ Len(array) >= 2
    /\ result.data_size = Len(array)
    /\ result.success = FALSE
    /\ tracing = FALSE

\* the callable sorts: it returned a non-decreasing permutation of data
SortsCorrectly ==
    /\ ReturnedList
    /\ IsSorted(heap[sorted_data])
    /\ IsPermutation(heap[sorted_data], array)

\* every call finds data as it was, and reports success when the callable sorts
EveryCallSucceeds ==
    /\ heap[data] = array
    /\ SortsCorrectly => result.success = TRUE

\* C13 (as stated): success is true only if the list the callable returned
\* is non-decreasing and a permutation of data, whatever the callable; and
\* every call on the same callable and data reports success when it sorts.
C13_SuccessOnlyIfSortedPermutation ==
    Measured =>
        /\ result.success = TRUE => SortsCorrectly
        /\ EveryCallSucceeds

\* C13 (amended): success is true only if the list the callable returned is
\* non-decreasing; with one of the five functions of ALGORITHM_MAP it is
\* then a permutation of data too; and every call on the same callable and
\* data reports success when it sorts.
C13_SuccessOnlyIfSorted ==
    Measured =>
        /\ result.success = TRUE => ReturnedList /\ IsSorted(heap[sorted_data])
        /\ (result.success = TRUE /\ sort_function \in ALGORITHM_NAMES) => SortsCorrectly
        /\ EveryCallSucceeds

\* the second call on heap sort and an unsorted list has reported success
C13_Witness ==
    /\ calls = 2
    /\ sort_function = "Heap Sort"
    /\ ~IsSorted(array)
    /\ Len(array) >= 2
    /\ result.success = TRUE
    /\ SortsCorrectly

(***************************************************************************)
(* The sweep                                                               *)
(***************************************************************************)
\* the worker has read the panel and has not ended
InSweep == pc \in {"size", "algo", "measure", "complete", "except", "finally"}

\* the list the last measured algorithm returned is at hand
HasOutput == InSweep /\ sorted_data # None

LastMeasured == order[Len(order)]

\* the loops of the sweep are over
LoopsDone == pc \in {"complete", "finally"} /\ exception = NoException

Measurements == {order[p] : p \in 1..Len(order)}

\* C14: a measurement whose algorithm returns a list that is not
\* non-decreasing is recorded as a failed result for its (algorithm, size),
\* and the sweep goes on: when the worker leaves the loops, every
\* (algorithm, size) of the sweep has been measured.
C14_FailureRecorded ==
    /\ HasOutput /\ ~IsSorted(heap[sorted_data]) =>
          LET r == multi_results[LastMeasured[1]][LastMeasured[2]]
          IN  /\ "success" \in DOMAIN r
              /\ r.success = FALSE
    /\ pc \in {"complete", "except", "finally"} =>
          Len(order) = Len(selected) * Len(test_sizes)

\* C15: for every maximum size from 1000 to 100000 the sweep derives
\* exactly 5 test sizes, strictly increasing and each at least 100.
C15_FiveIncreasingSizes ==
    (test_sizes # <<>> /\ max_size >= 1000 /\ max_size <= 100000) =>
        /\ Len(test_sizes) = 5
        /\ \A k \in 1..4 : test_sizes[k] < test_sizes[k + 1]
        /\ \A k \in 1..5 : test_sizes[k] >= 100

\* the sizes derived from a maximum size of 5000
C15_Witness ==
    /\ max_size = 5000
    /\ test_sizes = <<1000, 2000, 3000, 4000, 5000>>

\* round(num / den) of Python: to the nearest integer, a tie to the even one
PyRound(num, den) ==
    LET q == num \div den
        twice == 2 * (num % den)
    IN  IF twice < den THEN q
        ELSE IF twice > den THEN q + 1
        ELSE IF q % 2 = 0 THEN q ELSE q + 1

SizesOf == {test_sizes[k] : k \in 1..Len(test_sizes)}

\* the sizes the slider, the preset buttons and the default can set
Configurable == {1000 * k : k \in 1..100}

C17_SameDataset ==
    InSweep =>
        /\ \A p, q \in 1..Len(generated) : p < q => generated[p] # generated[q]
        /\ generated = SubSeq(test_sizes, 1, Len(generated))
        /\ data # None => heap[data] = dataset
        /\ HasOutput => arr_seen = dataset
        /\ \A p \in 1..Len(generated) :
              (p < Len(generated) \/ LoopsDone) =>
                  \A i \in 1..Len(selected) : <<selected[i], generated[p]>> \in Measurements

\* two algorithms have been run on a reverse sorted dataset, the second has
\* returned it in another order and the dataset is as generated
C17_Witness ==
    /\ HasOutput
    /\ dtype = "Reverse Sorted"
    /\ Len(order) >= 2
    /\ order[Len(order) - 1][2] = LastMeasured[2]
    /\ order[Len(order) - 1][1] # LastMeasured[1]
    /\ heap[sorted_data] # dataset
    /\ arr_seen = dataset
    /\ heap[data] = dataset

SelectionIndex(a) == CHOOSE i \in 1..Len(selected) : selected[i] = a

\* C18: the measurements are recorded one after the other, for each
\* algorithm in strictly increasing size order and within a size in
\* selection order; when the loops are over every selected algorithm has a
\* result for every test size.
C18_FixedOrder ==
    /\ InSweep =>
          /\ Len(order) = current_test
          /\ \A p, q \in 1..Len(order) :
                p < q =>
                    /\ order[p][2] <= order[q][2]
                    /\ order[p][1] = order[q][1] => order[p][2] < order[q][2]
                    /\ order[p][2] = order[q][2] =>
                          SelectionIndex(order[p][1]) < SelectionIndex(order[q][1])
    /\ LoopsDone =>
          \A i \in 1..Len(selected), k \in 1..Len(test_sizes) :
              /\ test_sizes[k] \in DOMAIN multi_results[selected[i]]
              /\ multi_results[selected[i]][test_sizes[k]].algorithm = selected[i]
              /\ multi_results[selected[i]][test_sizes[k]].data_size = test_sizes[k]

\* a sweep of three algorithms is over
C18_Witness ==
    /\ LoopsDone
    /\ Len(selected) = 3
    /\ Len(order) = 15
    /\ order[1][1] = selected[1]
    /\ order[3][1] = selected[3]
    /\ order[4][2] > order[3][2]

InUnit(f) == f.den > 0 /\ 0 <= f.num /\ f.num <= f.den

\* C19: when a measurement starts, the last progress report names its
\* algorithm and size; every progress value reported lies in [0,1].
C19_Progress ==
    /\ InUnit(progress.val)
    /\ pc = "measure" =>
          progress.text = [kind |-> "Testing", algo |-> Algo, size |-> Size]

\* the last of 25 measurements is about to start, reported above 0.9
C19_Witness ==
    /\ pc = "measure"
    /\ total_tests = 25
    /\ current_test = 24
    /\ progress.text.kind = "Testing"
    /\ 10 * progress.val.num > 9 * progress.val.den
    /\ progress.val.num < progress.val.den

\* C20: the worker never runs its size, progress and measurement logic with
\* an empty selection, also when the selection changes between the accepted
\* start request and the worker's read.
C20_NeverEmptySelection == InSweep => selected # <<>>

(***************************************************************************)
(* One sweep at a time                                                     *)
(***************************************************************************)
\* C21: at most one worker thread is alive at any time, and is_running is
\* true as long as it is: a start request made while is_running is true
\* returns at the first check of _start_analysis and starts no thread,
\* whatever the worker and the finish callback have done so far.
C21_NoSecondWorker ==
    /\ threads \in {0, 1}
    /\ (threads = 1) <=> (pc # "none")
    /\ threads = 1 => is_running

\* a start request was refused during this sweep and the worker goes on
\* with its second measurement
C21_Witness ==
    /\ refused
    /\ threads = 1
    /\ pc = "measure"
    /\ Len(order) = 1

\* C22: a sweep that was started ends: after the last measurement or after
\* an exception the worker schedules _finish_analysis, the callback runs,
\* is_running is false again, no thread is left and the run button is back
\* to normal, so that the next start request is accepted.
C22_SweepEnds ==
    is_running ~> (~is_running /\ threads = 0 /\ run_btn = "normal")

\* a second sweep is being measured after a first one that ended
C22_Witness ==
    /\ DOMAIN self_multi_results # {}
    /\ pc = "measure"
    /\ is_running

\* C23: replaying a trace never changes it. A STEP press, an AUTO / STOP
\* press and a timer call of _auto_play leave the steps, the array and the
\* original array as they are and move the cursor by at most one step
\* forward; a restart puts the cursor at 0, stops the replay and generates,
\* from the unchanged original array, a trace equal to the one before.
C23_ReplayKeepsTrace ==
    [][/\ last_op'.name \in {"_step_forward", "_toggle_auto", "_auto_play"} =>
            /\ steps' = steps
            /\ array' = array
            /\ original_array' = original_array
            /\ current_step' \in {current_step, current_step + 1}
       /\ last_op'.name = "_restart" =>
            /\ steps' = steps
            /\ original_array' = original_array
            /\ array' = original_array
            /\ current_step' = 0
            /\ ~viz_is_running']_vars

\* a restart made after auto-play was started (its timer call is still
\* pending), on a trace of several steps
C23_Witness ==
    /\ last_op.name = "_restart"
    /\ timers > 0
    /\ current_step = 0
    /\ Len(steps) > 1

\* C28: at most one call of _auto_play scheduled with after(...) is
\* pending at any time, whatever the order of AUTO / STOP presses, STEP
\* presses, restarts and timer calls.
C28_OneTimer == timers <= 1

\* C29: after any sequence of STEP, AUTO / STOP, timer calls, RESTART,
\* Random and Apply the cursor is within 0 .. len(steps), the trace has at
\* least one step, is_running is true only while the cursor is before the
\* end, and at the end of the trace _step_forward returns at once, leaving
\* the window as it is.
C29_CursorInTrace ==
    /\ 0 <= current_step
    /\ current_step <= Len(steps)
    /\ Len(steps) >= 1
    /\ viz_is_running => current_step < Len(steps)
    /\ current_step >= Len(steps) => _step_forward(Window) = Window

\* the timer call of _auto_play has drawn the last step of the trace
C29_Witness ==
    /\ last_op.name = "_auto_play"
    /\ current_step = Len(steps)
    /\ step_btn = Button("disabled", "DONE")
    /\ ~viz_is_running

\* C30: Apply replaces the array and restarts the trace only when the text
\* of the entry, stripped, is not empty, every item between its commas that
\* is not blank is an integer, and the number of these integers is between
\* 3 and max_n (10 for Heap Sort, 15 otherwise): then the array and the
\* original array are the integers listed, the trace is the one generated
\* from them, the cursor is 0 and the replay is stopped. Otherwise the
\* array, the original array, the steps, the cursor and is_running are
\* left as they were.
C30_ApplyCustom ==
    [][last_op'.name = "_apply_custom" =>
        LET text == py_strip(last_op'.text)
            parsed == parse_numbers(text)
            n == Len(parsed.numbers)
        IN  IF /\ text # <<>>
               /\ parsed.exc = NoException
               /\ MinCustom <= n
               /\ n <= (IF algorithm_name = "Heap Sort" THEN MaxCustomHeap ELSE MaxCustomOther)
            THEN /\ Vals(array') = parsed.numbers
                 /\ original_array' = array'
                 /\ steps' = _generate_steps(algorithm_name, array').steps
                 /\ current_step' = 0
                 /\ ~viz_is_running'
            ELSE UNCHANGED <<array, original_array, steps, current_step, viz_is_running>>]_vars

\* Apply was pressed in a Heap Sort window during auto-play on a list of
\* eleven integers, one more than max_n, and the replay goes on
C30_Witness ==
    /\ last_op.name = "_apply_custom"
    /\ algorithm_name = "Heap Sort"
    /\ parse_numbers(py_strip(last_op.text)).exc = NoException
    /\ Len(parse_numbers(py_strip(last_op.text)).numbers) = MaxCustomHeap + 1
    /\ viz_is_running
    /\ current_step > 0

\* the index a step of the Quick Sort trace marks 'pivot'
PivotAnnounced(step) == CHOOSE k \in DOMAIN step.highlights : step.highlights[k] = "pivot"

\* C25: in every partition of the Quick Sort trace the pivot announced for
\* the subrange lo .. hi has the value of the element quick_sort selects
\* there, the median of the first, the middle and the last element of the
\* subrange, so that the trace partitions as quick_sort does.
C25_SamePivot ==
    (window = "ready" /\ algorithm_name = "Quick Sort") =>
        \A p \in 1..Len(steps) :
            steps[p].description = "PIVOT" =>
                LET lo == steps[p].pointers["j"]
                    hi == PivotAnnounced(steps[p])
                    a == steps[p].array
                IN  Key(At(a, hi)) = Key(At(a, median_of_three(a, lo, hi)))

\* the number of assignments arr[k] = ... the merges of _gen_mergesort make
\* on the range start .. end - 1: each merge writes every index of its range
RECURSIVE merge_placements(_, _)
merge_placements(start, end) ==
    IF end - start > 1
    THEN LET mid == (start + end) \div 2
         IN  merge_placements(start, mid) + merge_placements(mid, end) + (end - start)
    ELSE 0

\* the steps of the trace that tag an index 'merging'
MergingSteps ==
    {p \in 1..Len(steps) :
        \E k \in DOMAIN steps[p].highlights : steps[p].highlights[k] = "merging"}

\* C26: in the Merge Sort trace every split step marks the left half
\* 'comparing' and the right half 'gap', the right half starting where
\* merge_sort starts it for that range (after mid = (left + right) // 2 of
\* the inclusive bounds), and every placement of an element during a merge,
\* the copies of the leftover elements included, has its own 'merging'
\* step.
C26_SplitsAndPlacements ==
    (window = "ready" /\ algorithm_name = "Merge Sort") =>
        /\ \A p \in 1..Len(steps) :
              steps[p].description = "Split" =>
                  LET range == DOMAIN steps[p].highlights
                      left == CHOOSE i \in range : \A k \in range : i <= k
                      right == CHOOSE i \in range : \A k \in range : i >= k
                      mid == (left + right) \div 2
                  IN  \A k \in range :
                         steps[p].highlights[k] = IF k <= mid THEN "comparing" ELSE "gap"
        /\ Cardinality(MergingSteps) = merge_placements(0, Len(array))

\* C24: run_analysis returns one PerformanceResult per entry of the
\* dictionary, in the dictionary's order; each is the result of measuring
\* that entry's callable on the data as the caller passed it, and the data
\* stays as passed; the callback, when one is given, has been called with
\* (name, index, total) for index 1, 2, ... in order, the call for an entry
\* coming before that entry's measurement; and the loop goes on after a
\* result that reports a failure, so that at the return no entry is missing.
C24_OneResultEach ==
    analysis_pc # "none" =>
        LET total == Len(algorithms)
            done == Len(analysis_results)
            announced == IF analysis_pc = "measure" THEN done + 1 ELSE done
        IN  /\ done <= total
            /\ analysis_pc = "measure" => done < total
            /\ analysis_pc = "returned" => done = total
            /\ heap[data] = array
            /\ \A p \in 1..done :
                  /\ analysis_results[p].algorithm_name = algorithms[p]
                  /\ analysis_results[p] =
                        measure_one(algorithms[p], (1 :> array), 1, data_type).result
            /\ reported = IF progress_callback = "None" THEN <<>>
                          ELSE <<>> \o [p \in 1..announced |-> <<algorithms[p], p, total>>]

\* run_analysis has returned two results: the first reports the exception
\* its callable raised, the second a successful sort of two elements that
\* were out of order
C24_Witness ==
    /\ analysis_pc = "returned"
    /\ Len(analysis_results) = 2
    /\ ~analysis_results[1].success
    /\ analysis_results[1].error_message = "unsupported input"
    /\ analysis_results[2].success
    /\ Len(reported) = 2
    /\ Len(array) = 2
    /\ Key(array[1]) > Key(array[2])

\* the values of Knuth's sequence 1, 4, 13, 40, ... up to v
RECURSIVE KnuthUpTo(_, _)
KnuthUpTo(k, v) == IF k > v THEN {} ELSE {k} \cup KnuthUpTo(3 * k + 1, v)

\* the list is sorted along every chain of elements gap apart
GapSorted(a, gap) ==
    \A p \in 1..(Len(a) - gap) : Key(a[p]) <= Key(a[p + gap])

\* what C27 says of the gaps apart from the size of the first one: they are
\* values of Knuth's sequence, each is the one before divided by 3, each
\* pass leaves the list sorted along its gap-chains and a permutation of
\* the input, the gap left after a pass is the gap of the pass divided by
\* 3, and at the return the last pass was the one with gap 1 and the gap is 0
ShellGapsDecrease ==
    /\ \A p \in 1..Len(gaps_used) : gaps_used[p] \in KnuthUpTo(1, gaps_used[p])
    /\ \A p \in 1..(Len(gaps_used) - 1) :
          /\ gaps_used[p + 1] = gaps_used[p] \div 3
          /\ gaps_used[p + 1] < gaps_used[p]
    /\ gaps_used # <<>> =>
          /\ shell_gap = gaps_used[Len(gaps_used)] \div 3
          /\ GapSorted(heap[shell_arr], gaps_used[Len(gaps_used)])
          /\ IsPermutation(heap[shell_arr], array)
    /\ shell_pc = "returned" =>
          /\ gaps_used # <<>>
          /\ gaps_used[Len(gaps_used)] = 1
          /\ shell_gap = 0
          /\ IsSorted(heap[sorted_data])
          /\ heap[data] = array

\* C27 (as stated): the gaps are capped below n/3, every gap used is
\* smaller than a third of the length.
C27_GapsBelowThird ==
    /\ ShellGapsDecrease
    /\ \A p \in 1..Len(gaps_used) : 3 * gaps_used[p] < Len(array)

\* C27: the gaps shell_sort uses on a list of n elements are values of
\* Knuth's sequence 1, 4, 13, 40, ...; the first is the smallest of them
\* that is not below n // 3 (below n when n >= 2, but not always below
\* n/3), each next one is the one before divided by 3 and smaller, each
\* pass is a gapped insertion sort, the last pass uses gap 1 and the loop
\* ends with gap 0.
C27_KnuthGaps ==
    /\ ShellGapsDecrease
    /\ gaps_used # <<>> =>
          LET n == Len(array)
              first == gaps_used[1]
          IN  /\ first >= n \div 3
              /\ first = 1 \/ (first - 1) \div 3 < n \div 3
              /\ n >= 2 => first < n

\* shell_sort has returned from a list of more than fifteen elements in
\* falling order, sorted in the passes with gaps 13, 4 and 1
C27_Witness ==
    /\ shell_pc = "returned"
    /\ gaps_used = <<13, 4, 1>>
    /\ Len(array) > 15
    /\ Key(array[1]) > Key(array[2])

====
